---- MODULE Spec2Model ----
(***************************************************************************)
(* Model of the AI front-end code builder (App.tsx, CodeWorkspace.tsx,     *)
(* Modals.tsx, utils/formatter.ts).                                        *)
(*                                                                         *)
(* Strings are sequences of one-character strings, so that indexOf,        *)
(* startsWith, substring, trim and endsWith are computed as the code       *)
(* computes them.                                                          *)
(*                                                                         *)
(* React state: setFiles(updater) does not run the updater when it is      *)
(* called.  The update is queued on the component and the updater runs     *)
(* at the next render, which happens in a later task of the event loop.    *)
(* An updater therefore reads the variables it closes over (the `let`      *)
(* currentFileName and buffer of handleSubmit) with the values they have   *)
(* at render time.  The one exception is React's eager path: an update     *)
(* dispatched while the component has no pending update may be computed    *)
(* at once; whether that path is taken is not under the program's control  *)
(* and is an input of the model.                                           *)
(***************************************************************************)
EXTENDS Integers, Sequences, FiniteSets, TLC

VARIABLES
  files,            \* useState<FileData[]>: the rendered File Set
  activeFileName,   \* useState: the Active File Pointer ('' is <<>>)
  queue,            \* pending state updates of App, in dispatch order
  rendering,        \* a render of App is in progress (queue being applied)
  storage,          \* localStorage['code-project']
  otherKeys,        \* other localStorage keys matching code/project/ai
  error,            \* useState<string|null> error (<<>> is null)
  isLoading,        \* useState isLoading
  gen,              \* position of handleSubmit: idle, streaming, ended
  received,         \* the text the stream has delivered so far
  buffer,           \* handleSubmit: let buffer
  currentFileName,  \* handleSubmit: let currentFileName (null is <<>>)
  atSubmit,         \* files and activeFileName when the request was submitted
  chunks,           \* chunks the stream has delivered: 0, 1, or 2 for several
  streamed,         \* the snapshots the post-stream passes have taken
  formats,          \* formatting passes in flight: their snapshots
  gens,             \* number of generation requests started
  ops,              \* number of user operations performed
  savedAtBoot,      \* what localStorage['code-project'] held before App started
  fmtIn,            \* formatCode: arguments of the call
  fmtOut,           \* formatCode: outcome of the call
  pc,               \* boot, loaded, crashed, app (App); fmt, fmtDone (formatCode)
  showConfirmation, \* useState showConfirmation: the dialog is open
  pendingPrompt,    \* useState pendingPrompt ('' is <<>>)
  isConfirming,     \* useState isConfirming
  timer,            \* debounceTimeoutRef: the pending timeout and its closure
  archive,          \* the entries of the last archive handleDownloadZip built
  preview,          \* htmlContent as last computed, and the state it was given
  isListening,      \* useSpeechRecognition: capture is active
  transcript,       \* useSpeechRecognition: the transcript ('' is <<>>)
  submissionSourceRef, \* useRef<'voice' | 'manual'>
  orphans,          \* timeouts that are pending and that no ref refers to
  origin,           \* what opened the latest stream: manual, dialog, voice
  submitted,        \* the transcript as it is has been auto-submitted
  quiet,            \* a debounce window has passed since the transcript changed
  erased,           \* names the latest reset destroyed, not created since
  snippets,         \* useState<string[]> snippets
  isSnippetsLoading, \* useState isSnippetsLoading
  snippetsError,    \* useState<string|null> snippetsError (<<>> is null)
  response          \* what the latest suggestion request has settled with

vars == <<files, activeFileName, queue, rendering, storage, otherKeys, error,
          isLoading, gen, received, buffer, currentFileName, atSubmit,
          chunks, streamed, formats, gens, ops, savedAtBoot, fmtIn, fmtOut, pc,
          showConfirmation, pendingPrompt, isConfirming, timer, archive, preview,
          isListening, transcript, submissionSourceRef, orphans, origin,
          submitted, quiet, erased, snippets, isSnippetsLoading,
          snippetsError, response>>

\* the speech hook, the submission source, and what is recorded about them
voiceVars == <<isListening, transcript, submissionSourceRef, orphans, origin,
               submitted, quiet>>

\* the suggestion request
snippetVars == <<snippets, isSnippetsLoading, snippetsError, response>>

\* the state of the confirmation gate, the voice bridge, export and preview
uiVars == <<showConfirmation, pendingPrompt, isConfirming, timer, archive, preview,
            voiceVars, erased, snippetVars>>

-----------------------------------------------------------------------------
(* Bounds *)

MaxLines == 3       \* lines of a streamed text
MaxOps == 2         \* user operations per behaviour
MaxStored == 2      \* elements of a stored array
MaxGens == 2        \* generation requests per behaviour with the gate

-----------------------------------------------------------------------------
(* Strings *)

NL == "\n"
SP == " "
WhiteSpace == {SP, NL}

\* '>>>FILE:'
MARKER == <<">", ">", ">", "F", "I", "L", "E", ":">>

\* null / undefined / '' of a string-valued variable: all falsy
Empty == <<>>
\* an absent (undefined) field of a FileData or of a stored object
Undefined == <<"undefined">>
\* a stored field whose value is not a string
NotAString == <<"number">>

\* String.prototype.indexOf(c): 1-based, 0 when absent
IndexOf(s, c) ==
  IF \E i \in 1..Len(s) : s[i] = c
  THEN CHOOSE i \in 1..Len(s) : s[i] = c /\ \A j \in 1..(i-1) : s[j] # c
  ELSE 0

\* String.prototype.lastIndexOf(c): 1-based, 0 when absent
LastIndexOf(s, c) ==
  IF \E i \in 1..Len(s) : s[i] = c
  THEN CHOOSE i \in 1..Len(s) : s[i] = c /\ \A j \in (i+1)..Len(s) : s[j] # c
  ELSE 0

StartsWith(s, p) == Len(s) >= Len(p) /\ SubSeq(s, 1, Len(p)) = p

EndsWith(s, p) == Len(s) >= Len(p) /\ SubSeq(s, Len(s) - Len(p) + 1, Len(s)) = p

\* String.prototype.trim
Trim(s) ==
  IF \A i \in 1..Len(s) : s[i] \in WhiteSpace
  THEN <<>>
  ELSE LET a == CHOOSE i \in 1..Len(s) :
                  s[i] \notin WhiteSpace /\ \A j \in 1..(i-1) : s[j] \in WhiteSpace
           b == CHOOSE i \in 1..Len(s) :
                  s[i] \notin WhiteSpace /\ \A j \in (i+1)..Len(s) : s[j] \in WhiteSpace
       IN SubSeq(s, a, b)

\* (s.match(/c/g) || []).length
CountOf(s, c) == Cardinality({i \in 1..Len(s) : s[i] = c})

IsPrefix(p, s) == Len(p) <= Len(s) /\ SubSeq(s, 1, Len(p)) = p

-----------------------------------------------------------------------------
(* File Set *)

FileNames(fs) == {fs[i].fileName : i \in 1..Len(fs)}

\* files.some(f => f.fileName === name)
HasFile(fs, name) == \E i \in 1..Len(fs) : fs[i].fileName = name

\* files[0]?.fileName || ''
FirstFileName(fs) == IF Len(fs) = 0 THEN Empty ELSE fs[1].fileName

\* content of the first record named name
ContentOf(fs, name) ==
  LET i == CHOOSE j \in 1..Len(fs) :
             fs[j].fileName = name /\ \A k \in 1..(j-1) : fs[k].fileName # name
  IN fs[i].content

\* the record a marker creates (App.tsx: fileData)
NewStreamFile(newFileName) ==
  [fileName |-> newFileName,
   content  |-> Empty,
   type     |-> "file",
   path     |-> IF IndexOf(newFileName, "/") # 0
                THEN SubSeq(newFileName, 1, LastIndexOf(newFileName, "/") - 1)
                ELSE Empty]

\* prevFiles.map(f => f.fileName === name ? {...f, content: f.content + more} : f)
AppendContent(fs, name, more) ==
  [i \in 1..Len(fs) |->
     IF fs[i].fileName = name
     THEN [fs[i] EXCEPT !.content = @ \o more]
     ELSE fs[i]]

\* currentFiles.map(file => file.fileName === name ? {...file, content} : file)
ReplaceContent(fs, name, newContent) ==
  [i \in 1..Len(fs) |->
     IF fs[i].fileName = name
     THEN [fs[i] EXCEPT !.content = newContent]
     ELSE fs[i]]

\* currentFiles.filter(f => f.fileName !== name)
RECURSIVE RemoveFile(_, _)
RemoveFile(fs, name) ==
  IF fs = <<>> THEN <<>>
  ELSE IF Head(fs).fileName = name
       THEN RemoveFile(Tail(fs), name)
       ELSE <<Head(fs)>> \o RemoveFile(Tail(fs), name)

-----------------------------------------------------------------------------
(* Queued state updates *)

Update(kind, name, line, value) ==
  [kind |-> kind, name |-> name, line |-> line, value |-> value, eager |-> FALSE]

\* faulty variant: a marker for a known name starts its file afresh
MarkerUpdater_Reset(fs, newFileName) ==
  IF HasFile(fs, newFileName)
  THEN ReplaceContent(fs, newFileName, Empty)
  ELSE Append(fs, NewStreamFile(newFileName))

\* setFiles(prevFiles => ...) of the marker branch
MarkerUpdater(fs, newFileName) ==
  IF HasFile(fs, newFileName)
  THEN fs
  ELSE Append(fs, NewStreamFile(newFileName))

\* faulty variant: a content line replaces the content of its file
LineUpdater_Replace(fs, cfn, line) == ReplaceContent(fs, cfn, line \o <<NL>>)

\* setFiles(prevFiles => ...) of the content-line branch; cfn is the value
\* currentFileName has when the updater runs
LineUpdater(fs, cfn, line) == AppendContent(fs, cfn, line \o <<NL>>)

\* faulty variant: the leftover buffer is ended with a newline like a full line
LeftoverUpdater_Newline(fs, cfn, buf) == AppendContent(fs, cfn, buf \o <<NL>>)

\* setFiles(prevFiles => ...) of the leftover buffer; cfn and buf are the
\* values currentFileName and buffer have when the updater runs
LeftoverUpdater(fs, cfn, buf) == AppendContent(fs, cfn, buf)

\* the new state a queued setFiles update computes from the state fs
ApplyUpdater(u, fs, cfn, buf) ==
  IF u.eager THEN u.value
  ELSE CASE u.kind = "marker"   -> MarkerUpdater(fs, u.name)
         [] u.kind = "line"     -> LineUpdater(fs, cfn, u.line)
         [] u.kind = "leftover" -> LeftoverUpdater(fs, cfn, buf)
         [] u.kind = "value"    -> u.value
         [] u.kind = "edit"     -> ReplaceContent(fs, u.name, u.line)
         [] u.kind = "create"   -> fs \o u.value
         [] u.kind = "delete"   -> RemoveFile(fs, u.name)
         [] OTHER               -> fs

\* an updater that returns the array it was given (no new reference)
ReturnsSameArray(u, fs) ==
  \/ u.kind = "marker" /\ HasFile(fs, u.name)
  \/ u.kind = "snapshot"

\* setFiles(updater) called by handleSubmit.  st is the state of the running
\* call: its buffer and currentFileName (cfn), the queue, the rendered files
\* and active file name, and whether React takes the eager path (clean: no
\* update is pending on the component).  On the eager path the updater runs
\* at once; an updater that returns the array it was given schedules nothing.
DispatchFiles(st, u) ==
  IF st.clean
  THEN IF ReturnsSameArray(u, st.files)
       THEN st
       ELSE [st EXCEPT
               !.queue = Append(@, [u EXCEPT
                                      !.eager = TRUE,
                                      !.value = ApplyUpdater(u, st.files, st.cfn, st.buffer)]),
               !.clean = FALSE]
  ELSE [st EXCEPT !.queue = Append(@, u), !.clean = FALSE]

\* setActiveFileName(name) called by handleSubmit
DispatchActive(st, name) ==
  IF st.clean /\ st.active = name
  THEN st
  ELSE [st EXCEPT !.queue = Append(@, Update("active", name, Empty, <<>>)),
                  !.clean = FALSE]

-----------------------------------------------------------------------------
(* Stream Demultiplexer: the body of the for-await loop of handleSubmit *)

\* faulty variant: a content line is dispatched whether or not a target is set
ClassifyLine_NoTargetCheck(st, line) ==
  IF StartsWith(line, MARKER)
  THEN LET newFileName == Trim(SubSeq(line, Len(MARKER) + 1, Len(line)))
       IN IF newFileName # Empty
          THEN DispatchActive(
                 DispatchFiles([st EXCEPT !.cfn = newFileName],
                               Update("marker", newFileName, Empty, <<>>)),
                 newFileName)
          ELSE st
  ELSE DispatchFiles(st, Update("line", Empty, line, <<>>))

\* faulty variant: a marker without a name closes the current target
ClassifyLine_NamelessCloses(st, line) ==
  IF StartsWith(line, MARKER)
  THEN LET newFileName == Trim(SubSeq(line, Len(MARKER) + 1, Len(line)))
       IN IF newFileName # Empty
          THEN DispatchActive(
                 DispatchFiles([st EXCEPT !.cfn = newFileName],
                               Update("marker", newFileName, Empty, <<>>)),
                 newFileName)
          ELSE [st EXCEPT !.cfn = Empty]
  ELSE IF st.cfn # Empty
       THEN DispatchFiles(st, Update("line", Empty, line, <<>>))
       ELSE st

\* one complete line taken from the buffer
ClassifyLine(st, line) ==
  IF StartsWith(line, MARKER)
  THEN LET newFileName == Trim(SubSeq(line, Len(MARKER) + 1, Len(line)))
       IN IF newFileName # Empty
          THEN DispatchActive(
                 DispatchFiles([st EXCEPT !.cfn = newFileName],
                               Update("marker", newFileName, Empty, <<>>)),
                 newFileName)
          ELSE st
  ELSE IF st.cfn # Empty
       THEN DispatchFiles(st, Update("line", Empty, line, <<>>))
       ELSE st

\* while ((lineEndIndex = buffer.indexOf('\n')) !== -1) { ... }
RECURSIVE DrainLines(_)
DrainLines(st) ==
  LET lineEndIndex == IndexOf(st.buffer, NL)
  IN IF lineEndIndex = 0
     THEN st
     ELSE DrainLines(
            ClassifyLine(
              [st EXCEPT !.buffer = SubSeq(@, lineEndIndex + 1, Len(@))],
              SubSeq(st.buffer, 1, lineEndIndex - 1)))

\* buffer += chunk.text, then the while loop
ProcessChunk(st, chunk) == DrainLines([st EXCEPT !.buffer = @ \o chunk])

\* after the loop: if (currentFileName && buffer.length > 0) setFiles(...)
ProcessLeftover(st) ==
  IF st.cfn # Empty /\ Len(st.buffer) > 0
  THEN DispatchFiles(st, Update("leftover", Empty, Empty, <<>>))
  ELSE st

\* finally { setIsLoading(false); setFiles(currentFiles => { ...; return currentFiles }) }
ProcessFinally(st) ==
  [st EXCEPT !.queue = Append(@, Update("snapshot", Empty, Empty, <<>>)),
             !.clean = FALSE]

-----------------------------------------------------------------------------
(* Formatter Gateway: utils/formatter.ts *)

MinFormatLength == 10

\* getParser
getParser(fileName) ==
  IF EndsWith(fileName, <<".", "h", "t", "m", "l">>) THEN "html"
  ELSE IF EndsWith(fileName, <<".", "c", "s", "s">>) THEN "css"
  ELSE IF \/ EndsWith(fileName, <<".", "j", "s">>)
          \/ EndsWith(fileName, <<".", "j", "s", "x">>)
          \/ EndsWith(fileName, <<".", "t", "s">>)
          \/ EndsWith(fileName, <<".", "t", "s", "x">>) THEN "babel"
  ELSE "null"

\* faulty variant: no brace check before the pretty-printer runs
formatCode_NoBraceCheck(fileName, content, pp) ==
  IF getParser(fileName) = "null"
  THEN [raised |-> FALSE, value |-> content]
  ELSE IF Trim(content) = Empty \/ Len(Trim(content)) < MinFormatLength
  THEN [raised |-> FALSE, value |-> content]
  ELSE IF pp.throws
  THEN [raised |-> FALSE, value |-> content]
  ELSE [raised |-> FALSE, value |-> pp.out]

\* formatCode.  pp is what prettier.format does for this call: it throws
\* (pp.throws) or resolves to pp.out.  The outcome is the pair of whether
\* the returned promise rejects and the string it resolves to.
formatCode(fileName, content, pp) ==
  LET parser == getParser(fileName)
  IN IF parser = "null"
     THEN [raised |-> FALSE, value |-> content]
     ELSE IF /\ EndsWith(fileName, <<".", "c", "s", "s">>)
             /\ CountOf(content, "{") # CountOf(content, "}")
     THEN [raised |-> FALSE, value |-> content]
     ELSE IF Trim(content) = Empty \/ Len(Trim(content)) < MinFormatLength
     THEN [raised |-> FALSE, value |-> content]
     ELSE IF pp.throws                             \* try { ... } catch
     THEN [raised |-> FALSE, value |-> content]
     ELSE [raised |-> FALSE, value |-> pp.out]

\* formatCode reaches `await prettier.format(...)`: every return before it
\* settles the promise of the call without waiting for anything
AwaitsPrettier(fileName, content) ==
  /\ getParser(fileName) # "null"
  /\ ~(/\ EndsWith(fileName, <<".", "c", "s", "s">>)
       /\ CountOf(content, "{") # CountOf(content, "}"))
  /\ ~(Trim(content) = Empty \/ Len(Trim(content)) < MinFormatLength)

\* what prettier.format resolves to when it does not throw: the text
\* without leading and trailing white space, ended by one newline
PrettierOutput(content) == Trim(content) \o <<NL>>

\* currentFiles.map(async file => ({fileName, content: await formatCode(...)}))
\* throws[i] tells whether prettier throws on the i-th file
FormattedFiles(fs, throws) ==
  [i \in 1..Len(fs) |->
     [fileName |-> fs[i].fileName,
      content  |-> formatCode(fs[i].fileName, fs[i].content,
                              [throws |-> throws[i],
                               out |-> PrettierOutput(fs[i].content)]).value,
      type     |-> "undefined",
      path     |-> Undefined]]

-----------------------------------------------------------------------------
(* Persisted state: localStorage['code-project'] *)

\* a stored value: absent (getItem returns null), the empty string, text
\* that JSON.parse rejects, or JSON text, held as the value it parses to
Absent == [kind |-> "absent", t |-> "none", elems |-> <<>>]

\* an element of a stored array: an object with its properties, or a value
\* that is no object (null, a number)
JsonObject(f) == [json |-> "object", obj |-> f]

\* JSON.stringify(files): properties that are undefined are left out, which
\* reading them back as Undefined reproduces
Stringify(fs) ==
  [kind |-> "json", t |-> "array",
   elems |-> [i \in 1..Len(fs) |-> JsonObject(fs[i])]]

\* faulty variant: the content of an element is not validated
RECURSIVE EveryValid_NoContentCheck(_)
EveryValid_NoContentCheck(elems) ==
  IF elems = <<>> THEN "true"
  ELSE LET file == Head(elems)
       IN IF file.json = "number" THEN "false"
          ELSE IF file.json = "null" THEN "throws"
          ELSE IF file.obj.fileName \in {Undefined, NotAString} THEN "false"
          ELSE EveryValid_NoContentCheck(Tail(elems))

\* parsed.every(file => typeof file === 'object' &&
\*   typeof file.fileName === 'string' && typeof file.content === 'string')
\* "throws" when a property of null is read (typeof null is 'object')
RECURSIVE EveryValid(_)
EveryValid(elems) ==
  IF elems = <<>> THEN "true"
  ELSE LET file == Head(elems)
       IN IF file.json = "number" THEN "false"
          ELSE IF file.json = "null" THEN "throws"
          ELSE IF file.obj.fileName \in {Undefined, NotAString} THEN "false"
          ELSE IF file.obj.content \in {Undefined, NotAString} THEN "false"
          ELSE EveryValid(Tail(elems))

\* the array JSON.parse returned, as FileData[]
ParsedFiles(elems) == [i \in 1..Len(elems) |-> elems[i].obj]

\* the initial-state function of useState<FileData[]>: the File Set it
\* returns, what it leaves in localStorage, and whether it threw.  JSON.parse
\* throws on text that is no JSON; every(...) throws on a null element; both
\* are caught by the catch block, which clears the related keys.
LoadProject(saved, others) ==
  LET Caught == [files |-> <<>>, storage |-> Absent, otherKeys |-> {},
                 threw |-> FALSE]
  IN IF saved.kind \in {"absent", "empty"}                  \* if (saved)
     THEN [files |-> <<>>, storage |-> saved, otherKeys |-> others,
           threw |-> FALSE]
     ELSE IF saved.kind = "garbage"
     THEN Caught
     ELSE IF saved.t = "array" /\ EveryValid(saved.elems) = "throws"
     THEN Caught
     ELSE IF saved.t = "array" /\ EveryValid(saved.elems) = "true"
     THEN [files |-> ParsedFiles(saved.elems), storage |-> saved,
           otherKeys |-> others, threw |-> FALSE]
     ELSE [files |-> <<>>, storage |-> Absent, otherKeys |-> others,
           threw |-> FALSE]

-----------------------------------------------------------------------------
(* Inputs *)

\* the lines a streamed text is made of: two markers, a marker without a
\* name, a content line and an empty line
MarkerA == MARKER \o <<SP, "a">>
MarkerB == MARKER \o <<"b", ".", "j", "s", SP>>
MarkerNoName == MARKER \o <<SP>>
LinePool == {MarkerA, MarkerB, MarkerNoName, <<"x">>, <<>>}

\* what may follow the last newline
TailPool == {<<>>, <<"z">>}

RECURSIVE TextsOfLines(_)
TextsOfLines(n) ==
  IF n = 0 THEN {<<>>}
  ELSE {t \o l \o <<NL>> : t \in TextsOfLines(n - 1), l \in LinePool}

Texts ==
  {t \o z : t \in UNION {TextsOfLines(n) : n \in 0..MaxLines}, z \in TailPool}

\* the text after the last newline of s
LastPartial(s) == SubSeq(s, LastIndexOf(s, NL) + 1, Len(s))

\* the chunks that may come next when s has been delivered: any further part
\* of the line in progress (up to and including its newline) or of a tail.
\* A chunk that spans several lines leaves handleSubmit in the state its
\* parts leave it in when they are delivered with no render in between.
NextChunks(s) ==
  LET partial == LastPartial(s)
      n == Len(partial)
      Rest(full) == IF IsPrefix(partial, full)
                    THEN {SubSeq(full, n + 1, j) : j \in (n + 1)..Len(full)}
                    ELSE {}
  IN UNION ( {Rest(z) : z \in TailPool}
             \cup (IF CountOf(s, NL) < MaxLines
                   THEN {Rest(l \o <<NL>>) : l \in LinePool}
                   ELSE {}) )

\* the stream may end here
MayEnd(s) == LastPartial(s) \in TailPool

File(name, content, path) ==
  [fileName |-> name, content |-> content, type |-> "file", path |-> path]

\* a project left by earlier work
OldFile ==
  File(<<"b", ".", "j", "s">>,
       <<SP, "v", "a", "r", SP, "y", "=", "1", ";", ";", ";">>, Empty)

InitialFileSets == {<<>>, <<OldFile>>}

-----------------------------------------------------------------------------
(* The application *)

NoCall == [fileName |-> Empty, content |-> Empty, throws |-> FALSE, out |-> Empty]
NoOutcome == [raised |-> FALSE, value |-> Empty]

\* debounceTimeoutRef.current = null: no timeout is pending
NoTimer ==
  [armed |-> FALSE, transcript |-> Empty, hasExistingCode |-> FALSE,
   isLoading |-> FALSE, isConfirming |-> FALSE, elapsed |-> FALSE,
   due |-> FALSE]

\* the voice effect has been invalidated by a state change and runs again
\* when the render is committed: its cleanup has cleared the timeout
EffectDue == [NoTimer EXCEPT !.due = TRUE]

\* no suggestion request has settled
NoResponse == [kind |-> "none", t |-> "none", field |-> "none", items |-> <<>>]

\* no archive has been built, no preview has been computed
NoArchive == <<>>
NoPreview == [doc |-> <<>>, of |-> <<>>, computed |-> 0]

\* useState(false), useState(''), useState(false), useRef(null)
UiInit ==
  /\ showConfirmation = FALSE
  /\ pendingPrompt = Empty
  /\ isConfirming = FALSE
  /\ timer = NoTimer
  /\ archive = NoArchive
  /\ preview = NoPreview
  /\ isListening = FALSE
  /\ transcript = Empty
  /\ submissionSourceRef = "manual"
  /\ orphans = {}
  /\ origin = "none"
  /\ submitted = FALSE
  /\ quiet = FALSE
  /\ erased = {}
  /\ snippets = <<>>
  /\ isSnippetsLoading = FALSE
  /\ snippetsError = Empty
  /\ response = NoResponse

\* const hasExistingCode = files.some(file => file.content.trim().length > 0)
hasExistingCode(fs) == \E i \in 1..Len(fs) : Len(Trim(fs[i].content)) > 0

\* useSpeechRecognition, startListening(): capture becomes active; whether
\* the transcript of the capture before is kept or cleared is not specified
ResetChoices == BOOLEAN
startListening(reset) ==
  [isListening |-> TRUE, transcript |-> IF reset THEN Empty ELSE transcript]

\* faulty variant: the timeout of the render before is not cleared
Cleanup_NoClear(t) == IF t.armed THEN {t} ELSE {}

\* clearTimeout(debounceTimeoutRef.current), in the effect and in its
\* cleanup: the timeouts that are pending afterwards and that the ref no
\* longer refers to
Cleanup(t) == {}

\* the body of the voice effect as it runs after a render with these values:
\* the timeout it leaves in debounceTimeoutRef, with what its callback
\* closes over
DebounceEffect(listening, tr, loading, confirming, existing) ==
  IF listening /\ tr # Empty
  THEN [armed |-> TRUE, transcript |-> tr, hasExistingCode |-> existing,
        isLoading |-> loading, isConfirming |-> confirming,
        elapsed |-> FALSE, due |-> FALSE]
  ELSE NoTimer

\* the state after App is constructed and its effects have run once
Init ==
  /\ pc = "app"
  /\ files \in InitialFileSets
  /\ activeFileName = FirstFileName(files)
  /\ queue = <<>>
  /\ rendering = FALSE
  /\ storage = Stringify(files)
  /\ otherKeys = {}
  /\ error = Empty
  /\ isLoading = FALSE
  /\ gen = "idle"
  /\ received = <<>>
  /\ buffer = <<>>
  /\ currentFileName = Empty
  /\ atSubmit = [files |-> <<>>, active |-> Empty, confirmed |-> FALSE]
  /\ chunks = 0
  /\ streamed = <<>>
  /\ formats = <<>>
  /\ gens = 0
  /\ ops = 0
  /\ savedAtBoot = storage
  /\ fmtIn = NoCall
  /\ fmtOut = NoOutcome
  /\ UiInit

\* the state of the running handleSubmit call, as the operators above take it
Running(eager) ==
  [buffer |-> buffer, cfn |-> currentFileName, queue |-> queue,
   clean |-> eager /\ queue = <<>>, files |-> files, active |-> activeFileName]

EagerChoices == IF queue = <<>> THEN BOOLEAN ELSE {FALSE}

\* faulty variant: the voice effect does not depend on isLoading, so the
\* timeout set before the request stays pending with what it closed over
StartStream_KeepTimer(confirmed, by, fired) ==
  /\ pc = "app" /\ ~rendering /\ queue = <<>>
  /\ ~(IF by = "voice" THEN fired.isLoading ELSE isLoading)
  /\ isLoading' = TRUE
  /\ error' = Empty
  /\ gen' = "streaming"
  /\ received' = <<>>
  /\ buffer' = <<>>
  /\ currentFileName' = Empty
  /\ atSubmit' = [files |-> files, active |-> activeFileName,
                  confirmed |-> confirmed]
  /\ chunks' = 0
  /\ gens' = gens + 1
  /\ timer' = IF fired = timer THEN NoTimer ELSE timer
  /\ orphans' = orphans \ {fired}
  /\ origin' = by
  /\ submissionSourceRef' = IF by = "dialog" THEN submissionSourceRef ELSE by
  /\ submitted' = (submitted \/ by = "voice")
  /\ UNCHANGED <<files, activeFileName, queue, rendering, storage, otherKeys,
                 streamed, formats, ops, savedAtBoot, fmtIn, fmtOut, pc,
                 archive, preview, isListening, transcript, quiet, erased, snippetVars>>

\* handleSubmit up to the request; confirmed: called by handleConfirmSubmit;
\* by: who called it; fired: the timeout whose callback called it.  The
\* guard reads the isLoading of the render that defined the caller.  The
\* change of isLoading runs the voice effect again: its cleanup clears the
\* pending timeout, its body sets one that closes over isLoading = true.
StartStream(confirmed, by, fired) ==
  /\ pc = "app" /\ ~rendering /\ queue = <<>>
  /\ ~(IF by = "voice" THEN fired.isLoading ELSE isLoading)
  /\ isLoading' = TRUE
  /\ error' = Empty
  /\ gen' = "streaming"
  /\ received' = <<>>
  /\ buffer' = <<>>
  /\ currentFileName' = Empty
  /\ atSubmit' = [files |-> files, active |-> activeFileName,
                  confirmed |-> confirmed]
  /\ chunks' = 0
  /\ gens' = gens + 1
  /\ timer' = DebounceEffect(isListening, transcript, TRUE,
                             IF confirmed THEN TRUE ELSE isConfirming,
                             hasExistingCode(files))
  /\ orphans' = (orphans \ {fired})
                   \cup Cleanup(IF fired = timer THEN NoTimer ELSE timer)
  /\ origin' = by
  /\ submissionSourceRef' = IF by = "dialog" THEN submissionSourceRef ELSE by
  /\ submitted' = (submitted \/ by = "voice")
  /\ UNCHANGED <<files, activeFileName, queue, rendering, storage, otherKeys,
                 streamed, formats, ops, savedAtBoot, fmtIn, fmtOut, pc,
                 archive, preview, isListening, transcript, quiet, erased, snippetVars>>

\* handleSubmit as the footer and the dialog call it, with the isLoading of
\* the latest render
StartRequest(confirmed) ==
  StartStream(confirmed, IF confirmed THEN "dialog" ELSE "manual", NoTimer)

\* handleSubmit(promptToUse) called with a prompt that is not blank
HandleSubmit ==
  /\ StartRequest(FALSE)
  /\ UNCHANGED <<showConfirmation, pendingPrompt, isConfirming>>

\* faulty variant: the statements after the await are missing, so the
\* confirming flag and the pending prompt stay as they are
AfterSubmit_KeepConfirming ==
  /\ UNCHANGED <<isConfirming, pendingPrompt>>
  /\ timer' = EffectDue
  /\ orphans' = orphans \cup Cleanup(timer)
  /\ \E reset \in ResetChoices :
       LET hook == IF submissionSourceRef = "voice"
                   THEN startListening(reset)
                   ELSE [isListening |-> isListening, transcript |-> transcript]
       IN /\ isListening' = hook.isListening
          /\ transcript' = hook.transcript
          /\ submitted' = (submitted /\ hook.transcript = transcript)
          /\ quiet' = (quiet /\ hook.transcript = transcript)
  /\ UNCHANGED <<showConfirmation, archive, preview, submissionSourceRef,
                 origin, erased, snippetVars>>

\* what follows `await handleSubmit(pendingPrompt)` in handleConfirmSubmit,
\* and the cleanup of the voice effect when isLoading changes
AfterSubmit ==
  /\ isConfirming' = FALSE
  /\ pendingPrompt' = IF isConfirming THEN Empty ELSE pendingPrompt
  /\ timer' = EffectDue
  /\ orphans' = orphans \cup Cleanup(timer)
  /\ \E reset \in ResetChoices :
       LET hook == IF submissionSourceRef = "voice"
                   THEN startListening(reset)
                   ELSE [isListening |-> isListening, transcript |-> transcript]
       IN /\ isListening' = hook.isListening
          /\ transcript' = hook.transcript
          /\ submitted' = (submitted /\ hook.transcript = transcript)
          /\ quiet' = (quiet /\ hook.transcript = transcript)
  /\ UNCHANGED <<showConfirmation, archive, preview, submissionSourceRef,
                 origin, erased, snippetVars>>

\* one iteration of for await (const chunk of stream)
Chunk(chunk, eager) ==
  /\ pc = "app" /\ gen = "streaming" /\ ~rendering
  /\ LET st == ProcessChunk(Running(eager), chunk)
     IN /\ buffer' = st.buffer
        /\ currentFileName' = st.cfn
        /\ queue' = st.queue
  /\ received' = received \o chunk
  /\ chunks' = IF chunks = 0 THEN 1 ELSE 2
  /\ UNCHANGED <<files, activeFileName, rendering, storage, otherKeys, error,
                 isLoading, gen, atSubmit, streamed, formats, gens, ops,
                 savedAtBoot, fmtIn, fmtOut, pc>>
  /\ UNCHANGED uiVars

\* the stream ends: the leftover buffer, then the finally block
EndStream(eager) ==
  /\ pc = "app" /\ gen = "streaming" /\ ~rendering
  /\ MayEnd(received)
  /\ LET st == ProcessFinally(ProcessLeftover(Running(eager)))
     IN queue' = st.queue
  /\ isLoading' = FALSE
  /\ gen' = "idle"
  /\ UNCHANGED <<files, activeFileName, rendering, storage, otherKeys, error,
                 received, buffer, currentFileName, atSubmit, chunks, streamed,
                 formats, gens, ops, savedAtBoot, fmtIn, fmtOut, pc>>
  /\ AfterSubmit

\* the request or the stream raises: the catch block, then the finally block
StreamError ==
  /\ pc = "app" /\ gen = "streaming" /\ ~rendering
  /\ error' = <<"F", "a", "i", "l", "e", "d">>
  /\ LET st == ProcessFinally(Running(FALSE))
     IN queue' = st.queue
  /\ isLoading' = FALSE
  /\ gen' = "idle"
  /\ UNCHANGED <<files, activeFileName, rendering, storage, otherKeys,
                 received, buffer, currentFileName, atSubmit, chunks, streamed,
                 formats, gens, ops, savedAtBoot, fmtIn, fmtOut, pc>>
  /\ AfterSubmit

\* the formatting pass on the File Set fs waits for prettier on some file.
\* A pass that waits for nothing settles in the microtasks that follow the
\* render, before any other event; when prettier.format settles is not in
\* the hands of the program.
PassAwaits(fs) == \E i \in 1..Len(fs) : AwaitsPrettier(fs[i].fileName, fs[i].content)

\* a render of App applies the next queued update.  A deferred updater reads
\* currentFileName and buffer as they are now.  The updater of the finally
\* block starts the formatting pass on the state it is given; the updater of
\* handleDeleteFile calls setActiveFileName while it runs.
RenderStep ==
  /\ pc = "app" /\ queue # <<>>
  /\ LET u == Head(queue)
         newFiles == ApplyUpdater(u, files, currentFileName, buffer)
         settles == u.kind = "snapshot" /\ ~PassAwaits(files)
     IN /\ files' = newFiles
        /\ activeFileName' = IF u.kind = "active" THEN u.name ELSE activeFileName
        /\ queue' = Tail(queue) \o
                    (IF u.kind = "delete" /\ u.line = u.name
                     THEN <<Update("active", FirstFileName(newFiles), Empty, <<>>)>>
                     ELSE IF settles
                     THEN <<Update("value", Empty, Empty,
                                   FormattedFiles(files, [i \in 1..Len(files) |-> FALSE]))>>
                     ELSE <<>>)
        /\ formats' = IF u.kind = "snapshot" /\ ~settles
                      THEN Append(formats, files) ELSE formats
        /\ streamed' = IF u.kind = "snapshot" THEN Append(streamed, files) ELSE streamed
  /\ rendering' = TRUE
  /\ UNCHANGED <<storage, otherKeys, error, isLoading, gen, received, buffer,
                 currentFileName, atSubmit, chunks, gens, ops, savedAtBoot, fmtIn, fmtOut, pc>>
  /\ erased' = erased \ (LET u == Head(queue)
                          IN IF u.kind = "marker" THEN {u.name}
                             ELSE IF u.kind = "create" THEN FileNames(u.value)
                             ELSE {})
  /\ UNCHANGED <<showConfirmation, pendingPrompt, isConfirming, timer, archive,
                 preview, voiceVars, snippetVars>>

\* faulty variant: the effect re-validates the pointer but does not write the
\* File Set to storage
Commit_NoPersist ==
  /\ pc = "app" /\ rendering /\ queue = <<>>
  /\ activeFileName' = IF HasFile(files, activeFileName)
                       THEN activeFileName
                       ELSE FirstFileName(files)
  /\ rendering' = FALSE
  /\ UNCHANGED <<files, queue, storage, otherKeys, error, isLoading, gen,
                 received, buffer, currentFileName, atSubmit, chunks, streamed,
                 formats, gens, ops, savedAtBoot, fmtIn, fmtOut, pc>>
  /\ timer' = IF timer.due
               THEN DebounceEffect(isListening, transcript, isLoading,
                                   isConfirming, hasExistingCode(files))
               ELSE timer
  /\ UNCHANGED <<showConfirmation, pendingPrompt, isConfirming, archive,
                 preview, voiceVars, erased, snippetVars>>

\* faulty variant: the effect persists the File Set and leaves the pointer alone
Commit_NoRevalidation ==
  /\ pc = "app" /\ rendering /\ queue = <<>>
  /\ storage' = Stringify(files)
  /\ rendering' = FALSE
  /\ UNCHANGED <<files, activeFileName, queue, otherKeys, error, isLoading,
                 gen, received, buffer, currentFileName, atSubmit, chunks,
                 streamed, formats, gens, ops, savedAtBoot, fmtIn, fmtOut, pc>>
  /\ timer' = IF timer.due
               THEN DebounceEffect(isListening, transcript, isLoading,
                                   isConfirming, hasExistingCode(files))
               ELSE timer
  /\ UNCHANGED <<showConfirmation, pendingPrompt, isConfirming, archive,
                 preview, voiceVars, erased, snippetVars>>

\* the render is committed and the effect on [files, activeFileName] runs:
\* it persists the File Set and re-validates the Active File Pointer; the
\* voice effect runs when isLoading or isListening has changed
Commit ==
  /\ pc = "app" /\ rendering /\ queue = <<>>
  /\ storage' = Stringify(files)
  /\ activeFileName' = IF HasFile(files, activeFileName)
                       THEN activeFileName
                       ELSE FirstFileName(files)
  /\ rendering' = FALSE
  /\ UNCHANGED <<files, queue, otherKeys, error, isLoading, gen, received,
                 buffer, currentFileName, atSubmit, chunks, streamed, formats,
                 gens, ops, savedAtBoot, fmtIn, fmtOut, pc>>
  /\ timer' = IF timer.due
               THEN DebounceEffect(isListening, transcript, isLoading,
                                   isConfirming, hasExistingCode(files))
               ELSE timer
  /\ UNCHANGED <<showConfirmation, pendingPrompt, isConfirming, archive,
                 preview, voiceVars, erased, snippetVars>>

\* Promise.all(...).then(formattedFiles => setFiles(formattedFiles)) of the
\* oldest formatting pass in flight
FormatResolve(throws) ==
  /\ pc = "app" /\ ~rendering /\ formats # <<>>
  /\ queue' = Append(queue, Update("value", Empty, Empty,
                                   FormattedFiles(Head(formats), throws)))
  /\ formats' = Tail(formats)
  /\ UNCHANGED <<files, activeFileName, rendering, storage, otherKeys, error,
                 isLoading, gen, received, buffer, currentFileName, atSubmit,
                 chunks, streamed, gens, ops, savedAtBoot, fmtIn, fmtOut, pc>>
  /\ UNCHANGED uiVars

\* on which files of the oldest pass in flight prettier throws
ThrowChoices ==
  IF formats = <<>> THEN {} ELSE [1..Len(Head(formats)) -> BOOLEAN]

\* one generation request and nothing else
DemuxNext ==
  \/ gens = 0 /\ HandleSubmit
  \/ \E c \in NextChunks(received) : \E eager \in EagerChoices : Chunk(c, eager)
  \/ \E t \in Texts : \E eager \in EagerChoices : received = <<>> /\ Chunk(t, eager)
  \/ \E eager \in EagerChoices : EndStream(eager)
  \/ StreamError
  \/ RenderStep
  \/ Commit
  \/ \E throws \in ThrowChoices : FormatResolve(throws)

SpecDemux == Init /\ [][DemuxNext]_vars

-----------------------------------------------------------------------------
(* User operations: CodeWorkspace.tsx, Modals.tsx.  A user event is handled
   in a task of its own and React renders before the next task, so each
   operation queues its updates and starts a render. *)

\* String.prototype.toLowerCase
ToLowerCase(s) ==
  [i \in 1..Len(s) |->
     CASE s[i] = "A" -> "a" [] s[i] = "B" -> "b" [] s[i] = "D" -> "d"
       [] OTHER -> s[i]]

\* what the user may type in the New File dialog
FileNameInputs == {<<"a">>, <<"A", SP>>, <<SP>>}
FolderInputs == {<<>>, <<SP, "d">>}

\* what the user may type in the editor
EditorContents == {<<"e">>}

\* NewFileModal.handleSubmit, then handleCreateFile
NewFileSubmit(fileName, folderPath) ==
  LET trimmedName == Trim(fileName)
      trimmedPath == Trim(folderPath)
      fullPath == IF trimmedPath # Empty
                  THEN trimmedPath \o <<"/">> \o trimmedName
                  ELSE trimmedName
      newFile == [fileName |-> trimmedName, content |-> Empty, type |-> "file",
                  path |-> trimmedPath]
  IN /\ pc = "app" /\ ~rendering /\ ops < MaxOps
     /\ trimmedName # Empty
     /\ ~\E f \in FileNames(files) : ToLowerCase(f) = ToLowerCase(fullPath)
     /\ queue' = queue \o <<Update("create", Empty, Empty, <<newFile>>),
                            Update("active", trimmedName, Empty, <<>>)>>
     /\ rendering' = TRUE
     /\ ops' = ops + 1
     /\ UNCHANGED <<files, activeFileName, storage, otherKeys, error, isLoading,
                    gen, received, buffer, currentFileName, atSubmit, chunks,
                    streamed, formats, gens, savedAtBoot, fmtIn, fmtOut, pc>>
     /\ UNCHANGED uiVars

\* handleDeleteFile: the delete button of a listed file
DeleteFile(fileNameToDelete) ==
  /\ pc = "app" /\ ~rendering /\ ops < MaxOps
  /\ fileNameToDelete \in FileNames(files)
  /\ queue' = Append(queue, Update("delete", fileNameToDelete, activeFileName, <<>>))
  /\ rendering' = TRUE
  /\ ops' = ops + 1
  /\ UNCHANGED <<files, activeFileName, storage, otherKeys, error, isLoading,
                 gen, received, buffer, currentFileName, atSubmit, chunks,
                 streamed, formats, gens, savedAtBoot, fmtIn, fmtOut, pc>>
  /\ UNCHANGED uiVars

\* onClick={() => setActiveFileName(file.fileName)}: a tab or a tree entry
SelectFile(fileName) ==
  /\ pc = "app" /\ ~rendering /\ ops < MaxOps
  /\ fileName \in FileNames(files)
  /\ queue' = Append(queue, Update("active", fileName, Empty, <<>>))
  /\ rendering' = TRUE
  /\ ops' = ops + 1
  /\ UNCHANGED <<files, activeFileName, storage, otherKeys, error, isLoading,
                 gen, received, buffer, currentFileName, atSubmit, chunks,
                 streamed, formats, gens, savedAtBoot, fmtIn, fmtOut, pc>>
  /\ UNCHANGED uiVars

\* handleContentChange: the editor is mounted only for an existing active file
ContentChange(newContent) ==
  /\ pc = "app" /\ ~rendering /\ ops < MaxOps
  /\ HasFile(files, activeFileName)
  /\ queue' = Append(queue, Update("edit", activeFileName, newContent, <<>>))
  /\ rendering' = TRUE
  /\ ops' = ops + 1
  /\ UNCHANGED <<files, activeFileName, storage, otherKeys, error, isLoading,
                 gen, received, buffer, currentFileName, atSubmit, chunks,
                 streamed, formats, gens, savedAtBoot, fmtIn, fmtOut, pc>>
  /\ UNCHANGED uiVars

\* what the editor may pass to onChange: text, or undefined
EditorValues == EditorContents \cup {Undefined}

\* handleContentChange as the editor calls it: undefined is ignored
handleContentChange(newContent) ==
  IF newContent = Undefined
  THEN /\ pc = "app" /\ ~rendering /\ ops < MaxOps
       /\ HasFile(files, activeFileName)
       /\ ops' = ops + 1
       /\ UNCHANGED <<files, activeFileName, queue, rendering, storage,
                      otherKeys, error, isLoading, gen, received, buffer,
                      currentFileName, atSubmit, chunks, streamed, formats,
                      gens, savedAtBoot, fmtIn, fmtOut, pc>>
       /\ UNCHANGED uiVars
  ELSE ContentChange(newContent)

\* resetProject (handleConfirmReset)
ResetProject ==
  /\ pc = "app" /\ ~rendering /\ ops < MaxOps
  /\ queue' = queue \o <<Update("value", Empty, Empty, <<>>),
                         Update("active", Empty, Empty, <<>>)>>
  /\ error' = Empty
  /\ storage' = Absent
  /\ otherKeys' = {}
  /\ rendering' = TRUE
  /\ ops' = ops + 1
  /\ UNCHANGED <<files, activeFileName, isLoading, gen, received, buffer,
                 currentFileName, atSubmit, chunks, streamed, formats, gens,
                 savedAtBoot, fmtIn, fmtOut, pc>>
  /\ erased' = FileNames(files)
  /\ UNCHANGED <<showConfirmation, pendingPrompt, isConfirming, timer, archive,
                 preview, voiceVars, isSnippetsLoading>>
  /\ snippets' = <<>>
  /\ snippetsError' = Empty
  /\ response' = NoResponse

\* zip.file(filePath, content): a later entry of the same name replaces the
\* earlier one
ZipFile(zip, filePath, content) ==
  IF \E i \in 1..Len(zip) : zip[i].name = filePath
  THEN [i \in 1..Len(zip) |->
          IF zip[i].name = filePath
          THEN [name |-> filePath, content |-> content]
          ELSE zip[i]]
  ELSE Append(zip, [name |-> filePath, content |-> content])

\* addFilesToZip(fileList, parentPath).  No record of the File Set is a
\* folder with children (folders exist in the tree view only), so every
\* record takes the file branch.
RECURSIVE addFilesToZip(_, _, _)
addFilesToZip(fileList, parentPath, zip) ==
  IF fileList = <<>> THEN zip
  ELSE LET file == Head(fileList)
           filePath == IF parentPath # Empty
                       THEN parentPath \o <<"/">> \o file.fileName
                       ELSE file.fileName
       IN addFilesToZip(Tail(fileList), parentPath,
                        IF file.type = "folder"
                        THEN zip
                        ELSE ZipFile(zip, filePath, file.content))

\* handleDownloadZip: the Download button
DownloadZip ==
  /\ pc = "app" /\ ~rendering /\ ops < MaxOps
  /\ archive' = addFilesToZip(files, Empty, <<>>)
  /\ ops' = ops + 1
  /\ UNCHANGED <<files, activeFileName, queue, rendering, storage, otherKeys,
                 error, isLoading, gen, received, buffer, currentFileName,
                 atSubmit, chunks, streamed, formats, gens, savedAtBoot,
                 fmtIn, fmtOut, pc, showConfirmation, pendingPrompt,
                 isConfirming, timer, preview, voiceVars, erased, snippetVars>>

\* the stream of the whole application: a file of one line, delivered in
\* chunks that end within or at the end of a line
AppText == MarkerA \o <<NL, "x", NL>>

AppChunks(s) ==
  IF IsPrefix(s, AppText)
  THEN {SubSeq(AppText, Len(s) + 1, j) :
          j \in {k \in (Len(s) + 1)..Len(AppText) :
                   AppText[k] \in {NL, ":"}}}
  ELSE {}

Next ==
  \/ gens = 0 /\ HandleSubmit
  \/ \E c \in AppChunks(received) : \E eager \in EagerChoices : Chunk(c, eager)
  \/ \E eager \in EagerChoices : received = AppText /\ EndStream(eager)
  \/ StreamError
  \/ RenderStep
  \/ Commit
  \/ \E throws \in ThrowChoices : FormatResolve(throws)
  \/ \E n \in FileNameInputs : \E d \in FolderInputs : NewFileSubmit(n, d)
  \/ \E n \in FileNames(files) : DeleteFile(n)
  \/ \E n \in FileNames(files) : SelectFile(n)
  \/ \E c \in EditorValues : handleContentChange(c)
  \/ ResetProject
  \/ DownloadZip

Spec == Init /\ [][Next]_vars

-----------------------------------------------------------------------------
(* Preview Synthesizer: htmlContent of App.tsx.  The regular expressions of
   the code are matched as the engine matches them: from the left, a match
   removed before the search goes on behind it. *)

Str_jsx == <<".", "j", "s", "x">>
Str_tsx == <<".", "t", "s", "x">>
Str_js == <<".", "j", "s">>
Str_ts == <<".", "t", "s">>
Str_html == <<".", "h", "t", "m", "l">>
Str_dotcss == <<".", "c", "s", "s">>
Str_React == <<"R", "e", "a", "c", "t">>
Str_App == <<"A", "p", "p">>
Str_index == <<"i", "n", "d", "e", "x">>
Str_main == <<"m", "a", "i", "n">>
Str_import == <<"i", "m", "p", "o", "r", "t">>
Str_from == <<"f", "r", "o", "m">>
Str_export == <<"e", "x", "p", "o", "r", "t">>
Str_default == <<"d", "e", "f", "a", "u", "l", "t">>
Str_script == <<"<", "s", "c", "r", "i", "p", "t">>
Str_endscript == <<">", "<", "/", "s", "c", "r", "i", "p", "t", ">">>
Str_link == <<"<", "l", "i", "n", "k">>
Str_src == <<"s", "r", "c", "=">>
Str_href == <<"h", "r", "e", "f", "=">>
Str_endhead == <<"<", "/", "h", "e", "a", "d", ">">>
Str_endbody == <<"<", "/", "b", "o", "d", "y", ">">>
Quotes == {"'", "\""}

\* s holds w at position i
HasAt(s, i, w) == i >= 1 /\ i + Len(w) - 1 <= Len(s) /\ SubSeq(s, i, i + Len(w) - 1) = w

\* String.prototype.includes
Includes(s, w) == \E i \in 1..(Len(s) + 1) : HasAt(s, i, w)

\* \s* from position i: the position behind the white space
SkipWs(s, i) ==
  IF \E j \in i..Len(s) : s[j] \notin WhiteSpace
  THEN CHOOSE j \in i..Len(s) :
         s[j] \notin WhiteSpace /\ \A k \in i..(j - 1) : s[k] \in WhiteSpace
  ELSE IF i > Len(s) THEN i ELSE Len(s) + 1

\* \s+ from position i: the position behind it, 0 when there is none
SkipWs1(s, i) == IF i <= Len(s) /\ s[i] \in WhiteSpace THEN SkipWs(s, i) ELSE 0

\* the least element of a set of positions, 0 for the empty set
Least(S) == IF S = {} THEN 0 ELSE CHOOSE x \in S : \A y \in S : x <= y

\* ['"][^'"]*['"] from position i: the position behind it, 0 when none
MatchQuoted(s, i) ==
  IF i <= Len(s) /\ s[i] \in Quotes
  THEN LET close == Least({j \in (i + 1)..Len(s) : s[j] \in Quotes})
       IN IF close = 0 THEN 0 ELSE close + 1
  ELSE 0

\* /import\s+.*?from\s+['"][^'"]*['"];?\s*/ at position i: .*? takes no
\* newline and as little as lets the rest match
MatchImport(s, i) ==
  LET a == IF HasAt(s, i, Str_import) THEN SkipWs1(s, i + Len(Str_import)) ELSE 0
      Ends(f) == LET w == IF HasAt(s, f, Str_from)
                          THEN SkipWs1(s, f + Len(Str_from)) ELSE 0
                     q == IF w = 0 THEN 0 ELSE MatchQuoted(s, w)
                 IN IF q = 0 THEN 0
                    ELSE SkipWs(s, IF q <= Len(s) /\ s[q] = ";" THEN q + 1 ELSE q)
      From == IF a = 0 THEN 0
              ELSE Least({f \in a..Len(s) :
                            /\ \A k \in a..(f - 1) : s[k] # NL
                            /\ Ends(f) # 0})
  IN IF From = 0 THEN 0 ELSE Ends(From)

\* /export\s+default\s+/ at position i
MatchExportDefault(s, i) ==
  LET a == IF HasAt(s, i, Str_export) THEN SkipWs1(s, i + Len(Str_export)) ELSE 0
  IN IF a # 0 /\ HasAt(s, a, Str_default)
     THEN SkipWs1(s, a + Len(Str_default))
     ELSE 0

\* /export\s+{.*?};\s*/ at position i
MatchExportList(s, i) ==
  LET a == IF HasAt(s, i, Str_export) THEN SkipWs1(s, i + Len(Str_export)) ELSE 0
      e == IF a # 0 /\ HasAt(s, a, <<"{">>)
           THEN Least({j \in (a + 1)..Len(s) :
                         /\ HasAt(s, j, <<"}", ";">>)
                         /\ \A k \in (a + 1)..(j - 1) : s[k] # NL})
           ELSE 0
  IN IF e = 0 THEN 0 ELSE SkipWs(s, e + 2)

\* /<[^>]*>/ at position i
MatchTag(s, i) ==
  IF HasAt(s, i, <<"<">>)
  THEN LET close == Least({j \in (i + 1)..Len(s) : s[j] = ">"})
       IN IF close = 0 THEN 0 ELSE close + 1
  ELSE 0

\* the greatest element of a set of positions, 0 for the empty set
Greatest(S) == IF S = {} THEN 0 ELSE CHOOSE x \in S : \A y \in S : y <= x

\* open[^>]*attr["'][^"']*["'][^>]*close at position i, letters compared
\* without case (flag i); [^>]* takes as much as lets the rest match
MatchTagWith(s, i, open, attr, close) ==
  LET low == ToLowerCase(s)
      End(k) == LET q == IF HasAt(low, k, attr)
                         THEN MatchQuoted(s, k + Len(attr)) ELSE 0
                    gt == IF q = 0 THEN 0
                          ELSE Least({j \in q..Len(s) : s[j] = ">"})
                IN IF gt # 0 /\ HasAt(low, gt, close) THEN gt + Len(close) ELSE 0
      k == IF HasAt(low, i, open)
           THEN Greatest({j \in (i + Len(open))..Len(s) :
                            /\ \A m \in (i + Len(open))..(j - 1) : s[m] # ">"
                            /\ End(j) # 0})
           ELSE 0
  IN IF k = 0 THEN 0 ELSE End(k)

\* the end of the match of the given expression at position i, 0 for none
Match(re, s, i) ==
  CASE re = "import"        -> MatchImport(s, i)
    [] re = "exportDefault" -> MatchExportDefault(s, i)
    [] re = "exportList"    -> MatchExportList(s, i)
    [] re = "tag"           -> MatchTag(s, i)
    [] re = "script"        -> MatchTagWith(s, i, Str_script, Str_src, Str_endscript)
    [] re = "link"          -> MatchTagWith(s, i, Str_link, Str_href, <<">">>)

\* s.replace(/re/g, '') from position i on
RECURSIVE RemoveFrom(_, _, _)
RemoveFrom(re, s, i) ==
  IF i > Len(s) THEN <<>>
  ELSE LET e == Match(re, s, i)
       IN IF e > i THEN RemoveFrom(re, s, e)
          ELSE <<s[i]>> \o RemoveFrom(re, s, i + 1)

RemoveAll(re, s) == RemoveFrom(re, s, 1)

\* s.replace(/w/, by): the first occurrence only
ReplaceFirst(s, w, by) ==
  LET i == Least({j \in 1..Len(s) : HasAt(s, j, w)})
  IN IF i = 0 THEN s
     ELSE SubSeq(s, 1, i - 1) \o by \o SubSeq(s, i + Len(w), Len(s))

\* Array.prototype.join
RECURSIVE Join(_, _)
Join(parts, sep) ==
  IF parts = <<>> THEN <<>>
  ELSE IF Len(parts) = 1 THEN parts[1]
  ELSE parts[1] \o sep \o Join(Tail(parts), sep)

\* the fixed text of the templates, each stretch of it one token
ReactHead == <<"<!DOCTYPE html>...<title>React App</title>...<style>">>
ReactBody == <<"body {...} #root {...}</style></head><body>...<script type=text/babel>try {">>
ReactMain == <<"const root = ...; const MainComponent = ">>
ReactTail == <<";root.render(...)} catch (error) {...}</script></body></html>">>
NoContentDocument == <<"<!DOCTYPE html>...<title>No Content</title>...</html>">>
StyleOpen == <<"<", "s", "t", "y", "l", "e", ">">>
StyleClose == <<"<", "/", "s", "t", "y", "l", "e", ">">> \o Str_endhead
ScriptOpen == <<"<script>try {">>
ScriptClose == <<"} catch (error) {...}</script>">> \o Str_endbody

\* flattenFiles: a folder with children gives its children, any other
\* record itself; no record of the File Set has children
flattenFiles(fileList) ==
  LET NotFolderWithChildren(f) == ~(f.type = "folder" /\ "children" \in DOMAIN f)
  IN SelectSeq(fileList, NotFolderWithChildren)

\* fileName.replace(/\.(jsx?|tsx?)$/, '')
StripScriptExtension(fileName) ==
  IF EndsWith(fileName, Str_jsx) \/ EndsWith(fileName, Str_tsx)
  THEN SubSeq(fileName, 1, Len(fileName) - 4)
  ELSE IF EndsWith(fileName, Str_js) \/ EndsWith(fileName, Str_ts)
  THEN SubSeq(fileName, 1, Len(fileName) - 3)
  ELSE fileName

\* the four replacements that clean one script file
CleanScript(content) ==
  RemoveAll("tag",
    RemoveAll("exportList",
      RemoveAll("exportDefault",
        RemoveAll("import", content))))

\* the contents of the records of fs
Contents(fs) == [i \in 1..Len(fs) |-> fs[i].content]

\* faulty variant: the component to mount is the active file when it is a
\* component file
htmlContent_ActiveMain(st) ==
  LET IsReact(f) == \/ EndsWith(f.fileName, Str_jsx)
                    \/ EndsWith(f.fileName, Str_tsx)
                    \/ EndsWith(f.fileName, Str_js) /\ Includes(f.content, Str_React)
      reactFiles == SelectSeq(st.files, IsReact)
      IsActive(f) == f.fileName = st.activeFileName
      IsScript(f) == \/ EndsWith(f.fileName, Str_js) \/ EndsWith(f.fileName, Str_jsx)
                     \/ EndsWith(f.fileName, Str_ts) \/ EndsWith(f.fileName, Str_tsx)
      mainComponent == IF SelectSeq(reactFiles, IsActive) # <<>>
                       THEN Head(SelectSeq(reactFiles, IsActive))
                       ELSE reactFiles[1]
  IN IF reactFiles # <<>>
     THEN ReactHead \o ReactBody
            \o Join([i \in 1..Len(SelectSeq(st.files, IsScript)) |->
                       CleanScript(SelectSeq(st.files, IsScript)[i].content)],
                    <<NL, NL>>)
            \o ReactMain \o StripScriptExtension(mainComponent.fileName) \o ReactTail
     ELSE NoContentDocument

\* the function of the useMemo that gives htmlContent; st is the state of
\* App the render has at hand
htmlContent(st) ==
  LET flatFiles == flattenFiles(st.files)
      IsReact(f) == \/ EndsWith(f.fileName, Str_jsx)
                    \/ EndsWith(f.fileName, Str_tsx)
                    \/ EndsWith(f.fileName, Str_js) /\ Includes(f.content, Str_React)
      IsMain(f) == \/ Includes(f.fileName, Str_App)
                   \/ Includes(f.fileName, Str_index)
                   \/ Includes(f.fileName, Str_main)
      IsCss(f) == EndsWith(f.fileName, Str_dotcss)
      IsScript(f) == \/ EndsWith(f.fileName, Str_js) \/ EndsWith(f.fileName, Str_jsx)
                     \/ EndsWith(f.fileName, Str_ts) \/ EndsWith(f.fileName, Str_tsx)
      IsHtml(f) == EndsWith(f.fileName, Str_html)
      IsPlainJs(f) == EndsWith(f.fileName, Str_js) /\ ~Includes(f.content, Str_React)
      reactFiles == SelectSeq(flatFiles, IsReact)
      cssFiles == SelectSeq(flatFiles, IsCss)
      cssContent == Join(Contents(cssFiles), <<NL>>)
  IN IF Len(reactFiles) > 0
     THEN LET mainComponent == IF SelectSeq(reactFiles, IsMain) # <<>>
                               THEN Head(SelectSeq(reactFiles, IsMain))
                               ELSE reactFiles[1]
              jsFiles == SelectSeq(flatFiles, IsScript)
              cleanReactCode == Join([i \in 1..Len(jsFiles) |->
                                        CleanScript(jsFiles[i].content)],
                                     <<NL, NL>>)
          IN ReactHead \o cssContent \o ReactBody \o cleanReactCode
               \o ReactMain \o StripScriptExtension(mainComponent.fileName)
               \o ReactTail
     ELSE IF SelectSeq(flatFiles, IsHtml) = <<>>
     THEN NoContentDocument
     ELSE LET htmlFile == Head(SelectSeq(flatFiles, IsHtml))
              stripped == RemoveAll("link", RemoveAll("script", htmlFile.content))
              styled == IF Len(cssFiles) > 0
                        THEN ReplaceFirst(stripped, Str_endhead,
                                          StyleOpen \o cssContent \o StyleClose)
                        ELSE stripped
              jsFiles == SelectSeq(flatFiles, IsPlainJs)
              jsContent == Join(Contents(jsFiles), <<";", NL>>)
          IN IF Len(jsFiles) > 0
             THEN ReplaceFirst(styled, Str_endbody,
                               ScriptOpen \o jsContent \o ScriptClose)
             ELSE styled

-----------------------------------------------------------------------------
(* Confirmation gate and Voice Capture Bridge: App.tsx *)


\* what the prompt field or the transcript may hold
Prompts == {<<"p">>, <<SP>>}

\* handleSubmitRequest(promptToUse) past its guard, as the render that
\* defined it sees the File Set: the dialog is opened, or handleSubmit runs
handleSubmitRequest(promptToUse) ==
  /\ pc = "app" /\ ~rendering /\ queue = <<>>
  /\ Trim(promptToUse) # Empty /\ ~isLoading
  /\ IF hasExistingCode(files)
     THEN /\ pendingPrompt' = promptToUse
          /\ showConfirmation' = TRUE
          /\ submissionSourceRef' = "manual"
          /\ UNCHANGED <<files, activeFileName, queue, rendering, storage,
                         otherKeys, error, isLoading, gen, received, buffer,
                         currentFileName, atSubmit, chunks, streamed, formats,
                         gens, ops, savedAtBoot, fmtIn, fmtOut, pc,
                         isConfirming, timer, archive, preview, isListening,
                         transcript, orphans, origin, submitted, quiet, erased, snippetVars>>
     ELSE HandleSubmit

\* onSubmit of the footer: the Enter key in the prompt field, which is
\* disabled while capture is active, or the Generate button, which is
\* disabled while the prompt is blank or a generation is loading.  The
\* source is set before handleSubmitRequest checks anything.
onSubmit(prompt) ==
  /\ pc = "app" /\ ~rendering /\ queue = <<>>
  /\ \/ ~isListening
     \/ Trim(prompt) # Empty /\ ~isLoading /\ ~isConfirming
  /\ (isListening /\ transcript # Empty) => prompt = transcript
  /\ IF Trim(prompt) # Empty /\ ~isLoading
     THEN handleSubmitRequest(prompt)
     ELSE /\ submissionSourceRef' = "manual"
          /\ UNCHANGED <<files, activeFileName, queue, rendering, storage,
                         otherKeys, error, isLoading, gen, received, buffer,
                         currentFileName, atSubmit, chunks, streamed, formats,
                         gens, ops, savedAtBoot, fmtIn, fmtOut, pc,
                         showConfirmation, pendingPrompt, isConfirming, timer,
                         archive, preview, isListening, transcript, orphans,
                         origin, submitted, quiet, erased, snippetVars>>

\* handleConfirmSubmit: the Replace Code button of the dialog.  When
\* handleSubmit returns at once (a generation is loading) the statements
\* after the await follow in the same step.
handleConfirmSubmit ==
  /\ pc = "app" /\ ~rendering /\ queue = <<>>
  /\ showConfirmation /\ ~isConfirming
  /\ showConfirmation' = FALSE
  /\ IF Trim(pendingPrompt) # Empty /\ ~isLoading
     THEN /\ StartRequest(TRUE)
          /\ isConfirming' = TRUE
          /\ UNCHANGED pendingPrompt
     ELSE /\ pendingPrompt' = Empty
          /\ UNCHANGED <<files, activeFileName, queue, rendering, storage,
                         otherKeys, error, isLoading, gen, received, buffer,
                         currentFileName, atSubmit, chunks, streamed, formats,
                         gens, ops, savedAtBoot, fmtIn, fmtOut, pc,
                         isConfirming, timer, archive, preview, voiceVars, erased, snippetVars>>

\* handleCancelSubmit: Keep Current Code, the close button, Escape, backdrop
handleCancelSubmit ==
  /\ pc = "app" /\ ~rendering /\ queue = <<>>
  /\ showConfirmation
  /\ showConfirmation' = FALSE
  /\ pendingPrompt' = Empty
  /\ UNCHANGED <<files, activeFileName, queue, rendering, storage, otherKeys,
                 error, isLoading, gen, received, buffer, currentFileName,
                 atSubmit, chunks, streamed, formats, gens, ops, savedAtBoot,
                 fmtIn, fmtOut, pc, isConfirming, timer, archive, preview,
                 voiceVars, erased, snippetVars>>

\* what the speech hook changes, with the voice effect that follows the
\* render: the cleanup of the effect clears the timeout of the render
\* before, the body sets a new one while capture is active and the
\* transcript is not empty
VoiceEffect(hook) ==
  /\ pc = "app" /\ ~rendering /\ queue = <<>>
  /\ isListening' = hook.isListening
  /\ transcript' = hook.transcript
  /\ timer' = DebounceEffect(hook.isListening, hook.transcript, isLoading,
                             isConfirming, hasExistingCode(files))
  /\ orphans' = orphans \cup Cleanup(timer)
  /\ submitted' = (submitted /\ hook.transcript = transcript)
  /\ quiet' = (quiet /\ hook.transcript = transcript)
  /\ UNCHANGED <<files, activeFileName, queue, rendering, storage, otherKeys,
                 error, isLoading, gen, received, buffer, currentFileName,
                 atSubmit, chunks, streamed, formats, gens, ops, savedAtBoot,
                 fmtIn, fmtOut, pc, showConfirmation, pendingPrompt,
                 isConfirming, archive, preview, submissionSourceRef, origin, erased, snippetVars>>

\* the speech hook delivers a transcript while capture is active
TranscriptUpdate(t) ==
  /\ isListening /\ t # Empty /\ t # transcript
  /\ VoiceEffect([isListening |-> TRUE, transcript |-> t])

\* the microphone button while capture is not active
StartListening ==
  /\ ~isListening
  /\ \E reset \in ResetChoices : VoiceEffect(startListening(reset))

\* the microphone button while capture is active, or capture ends by itself
StopListening ==
  /\ isListening
  /\ VoiceEffect([isListening |-> FALSE, transcript |-> transcript])

\* the timeouts that are pending
Pending == orphans \cup (IF timer.armed THEN {timer} ELSE {})

\* the debounce delay passes without an event
Elapse ==
  /\ pc = "app" /\ ~rendering /\ queue = <<>>
  /\ (\E t \in Pending : ~t.elapsed) \/ (isListening /\ ~quiet)
  /\ timer' = IF timer.armed THEN [timer EXCEPT !.elapsed = TRUE] ELSE timer
  /\ orphans' = {[t EXCEPT !.elapsed = TRUE] : t \in orphans}
  /\ quiet' = TRUE
  /\ UNCHANGED <<files, activeFileName, queue, rendering, storage, otherKeys,
                 error, isLoading, gen, received, buffer, currentFileName,
                 atSubmit, chunks, streamed, formats, gens, ops, savedAtBoot,
                 fmtIn, fmtOut, pc, showConfirmation, pendingPrompt,
                 isConfirming, archive, preview, isListening, transcript,
                 submissionSourceRef, origin, submitted, erased, snippetVars>>

\* a timeout whose delay has passed runs its callback: handleSubmitRequest,
\* and through it handleSubmit, of the render that set the timeout
TimerFire ==
  /\ pc = "app" /\ ~rendering /\ queue = <<>>
  /\ \E t \in Pending :
       /\ t.elapsed
       /\ IF Trim(t.transcript) # Empty /\ ~t.isLoading /\ ~t.isConfirming
          THEN IF t.hasExistingCode
               THEN /\ submissionSourceRef' = "voice"
                    /\ pendingPrompt' = t.transcript
                    /\ showConfirmation' = TRUE
                    /\ submitted' = TRUE
                    /\ timer' = IF t = timer THEN NoTimer ELSE timer
                    /\ orphans' = orphans \ {t}
                    /\ UNCHANGED <<files, activeFileName, queue, rendering,
                                   storage, otherKeys, error, isLoading, gen,
                                   received, buffer, currentFileName, atSubmit,
                                   chunks, streamed, formats, gens, ops,
                                   savedAtBoot, fmtIn, fmtOut, pc, isConfirming,
                                   archive, preview, isListening, transcript,
                                   origin, quiet, erased, snippetVars>>
               ELSE /\ StartStream(FALSE, "voice", t)
                    /\ UNCHANGED <<showConfirmation, pendingPrompt, isConfirming>>
          ELSE /\ timer' = IF t = timer THEN NoTimer ELSE timer
               /\ orphans' = orphans \ {t}
               /\ UNCHANGED <<files, activeFileName, queue, rendering, storage,
                              otherKeys, error, isLoading, gen, received,
                              buffer, currentFileName, atSubmit, chunks,
                              streamed, formats, gens, ops, savedAtBoot, fmtIn,
                              fmtOut, pc, showConfirmation, pendingPrompt,
                              isConfirming, archive, preview, isListening,
                              transcript, submissionSourceRef, origin,
                              submitted, quiet, erased, snippetVars>>

\* the application with its gate: requests are submitted by hand or by voice
GateNext ==
  \/ gens < MaxGens /\ \E p \in Prompts : onSubmit(p)
  \/ gens < MaxGens /\ handleConfirmSubmit
  \/ handleCancelSubmit
  \/ \E t \in Prompts : TranscriptUpdate(t)
  \/ StartListening
  \/ StopListening
  \/ Elapse
  \/ gens < MaxGens /\ TimerFire
  \/ \E eager \in EagerChoices : received = <<>> /\ Chunk(AppText, eager)
  \/ \E eager \in EagerChoices : received = AppText /\ EndStream(eager)
  \/ StreamError
  \/ RenderStep
  \/ Commit
  \/ \E throws \in ThrowChoices : FormatResolve(throws)
  \/ NewFileSubmit(<<"a">>, <<>>)
  \/ \E c \in EditorContents : ContentChange(c)

SpecGate == Init /\ [][GateNext]_vars

-----------------------------------------------------------------------------
(* What the claims speak of *)

\* the complete lines of a text, without their newlines
RECURSIVE CompleteLines(_)
CompleteLines(s) ==
  LET i == IndexOf(s, NL)
  IN IF i = 0 THEN <<>>
     ELSE <<SubSeq(s, 1, i - 1)>> \o CompleteLines(SubSeq(s, i + 1, Len(s)))

\* the file name a marker line carries (empty when it carries none)
MarkerName(line) == Trim(SubSeq(line, Len(MARKER) + 1, Len(line)))

\* a line that starts a file
IsMarkerLine(line) == StartsWith(line, MARKER) /\ MarkerName(line) # Empty

\* the name of the last marker line among the complete lines of s
LastMarkerName(s) ==
  LET ls == CompleteLines(s)
      ms == {i \in 1..Len(ls) : IsMarkerLine(ls[i])}
  IN IF ms = {} THEN Empty
     ELSE MarkerName(ls[CHOOSE i \in ms : \A j \in ms : j <= i])

\* a well-formed multi-file stream starts with a marker line
WellFormed(s) ==
  LET ls == CompleteLines(s) IN Len(ls) > 0 /\ IsMarkerLine(ls[1])

\* the queued updates applied in order, as one render applies them
RECURSIVE ApplyAll(_, _, _, _)
ApplyAll(q, fs, cfn, buf) ==
  IF q = <<>> THEN fs
  ELSE ApplyAll(Tail(q), ApplyUpdater(Head(q), fs, cfn, buf), cfn, buf)

\* the File Set the post-stream pass finds when the whole text t arrives as
\* one chunk, from the state start = [files, active]
WholeResult(start, t, eager) ==
  LET st == ProcessLeftover(ProcessChunk(
              [buffer |-> <<>>, cfn |-> Empty, queue |-> <<>>, clean |-> eager,
               files |-> start.files, active |-> start.active], t))
  IN ApplyAll(st.queue, start.files, st.cfn, st.buffer)

\* the File Set the protocol of the stream describes: each marker line opens
\* its file (created when new), each other line goes to the file open when
\* the line is read, lines before the first marker go nowhere
RECURSIVE Described(_, _, _)
Described(ls, fs, open) ==
  IF ls = <<>> THEN fs
  ELSE LET line == Head(ls)
       IN IF IsMarkerLine(line)
          THEN Described(Tail(ls),
                         IF HasFile(fs, MarkerName(line)) THEN fs
                         ELSE Append(fs, NewStreamFile(MarkerName(line))),
                         MarkerName(line))
          ELSE IF StartsWith(line, MARKER) \/ open = Empty
          THEN Described(Tail(ls), fs, open)
          ELSE Described(Tail(ls), AppendContent(fs, open, line \o <<NL>>), open)

\* fs grew into gs: the names of fs are the first names of gs and every
\* content of fs is the beginning of the content it has in gs
IsPrefixFileSet(fs, gs) ==
  /\ Len(fs) <= Len(gs)
  /\ \A i \in 1..Len(fs) :
       /\ fs[i].fileName = gs[i].fileName
       /\ IsPrefix(fs[i].content, gs[i].content)

\* this step is a render applying a queued update of the given kind
Applies(kind) ==
  /\ queue # <<>> /\ Head(queue).kind = kind
  /\ rendering' /\ Len(queue') <= Len(queue) /\ queue' # queue

\* the stream of the one request has completed and the post-stream pass has
\* taken its snapshot
StreamCompleted == Len(streamed) = 1 /\ error = Empty

\* C1: (as claimed) for a well-formed text, the final File Set of the stream,
\* however it was split into chunks, is the one the whole text gives as one
\* chunk
C1_ChunkSplitInvariance ==
  (StreamCompleted /\ WellFormed(received))
    => streamed[1] \in {WholeResult(atSubmit, received, e) : e \in BOOLEAN}

\* C2: (as claimed) from an empty File Set, a single chunk of marker and
\* content lines yields one record per marker name in first-seen order, each
\* holding the lines that followed its markers
C2_SingleChunkResult ==
  (StreamCompleted /\ atSubmit.files = <<>> /\ chunks = 1
     /\ LastPartial(received) = <<>>)
    => streamed[1] = Described(CompleteLines(received), <<>>, Empty)

C4_LeftoverAppendedVerbatim ==
  [][ /\ Applies("leftover")
          => files' = AppendContent(files, LastMarkerName(received),
                                    LastPartial(received))
      /\ (gen = "streaming" /\ gen' = "idle"
            /\ (LastPartial(received) = <<>> \/ LastMarkerName(received) = Empty))
          => \A i \in 1..Len(queue') : queue'[i].kind # "leftover" ]_vars

\* C4 witness: a stream ended on a partial line and the target's final
\* content ends with it, and not with a newline
C4_Witness ==
  /\ StreamCompleted
  /\ LastPartial(received) = <<"z">>
  /\ LastMarkerName(received) # Empty
  /\ HasFile(streamed[1], LastMarkerName(received))
  /\ EndsWith(ContentOf(streamed[1], LastMarkerName(received)), <<"x", NL, "z">>)

\* C5: until the post-stream pass takes its snapshot, every step leaves a
\* File Set that the next one extends: names are only added at the end and
\* contents only grow at their end
C5_PrefixOfFinal ==
  [][ (gens = 1 /\ Len(streamed) = 0) => IsPrefixFileSet(files, files') ]_vars

\* C5 witness: in mid-stream a file that had content has received more
C5_Witness ==
  /\ gen = "streaming" /\ queue = <<>> /\ ~rendering
  /\ \E i \in 1..Len(files) :
       /\ i <= Len(atSubmit.files)
       /\ files[i].content # atSubmit.files[i].content

\* C6: (as claimed) after a stream error no later step of the generation
\* changes a record's content
C6_ErrorLeavesFileSet ==
  (error # Empty /\ Len(streamed) = 1)
    => /\ Len(files) = Len(streamed[1])
       /\ \A i \in 1..Len(files) : files[i].content = streamed[1][i].content

\* every queued update has been applied and the effects have run
Settled == pc = "app" /\ ~rendering /\ queue = <<>>

\* C9: once the pending updates and the effect have run, the Active File
\* Pointer is empty or names a record of the File Set; and the update that
\* deletes the active file points it to a file that remains, or to empty
\* when none remains
C9_ActivePointerValid ==
  /\ [](Settled => (activeFileName = Empty \/ HasFile(files, activeFileName)))
  /\ [][ (Applies("delete") /\ Head(queue).line = Head(queue).name)
           => LET next == queue'[Len(queue')]
              IN /\ next.kind = "active"
                 /\ IF files' = <<>> THEN next.name = Empty
                    ELSE HasFile(files', next.name)
                 /\ ~HasFile(files', Head(queue).name) ]_vars

\* C9 witness: the stream made file a the active file, the user's one
\* operation deleted it, and the pointer is on the file that remains
C9_Witness ==
  /\ Settled /\ ops = 1
  /\ currentFileName = <<"a">>
  /\ ~HasFile(files, <<"a">>)
  /\ files # <<>>
  /\ activeFileName = files[1].fileName

\* C10: (as claimed) no two records of the File Set have the same fileName
C10_UniqueFileNames ==
  \A i, j \in 1..Len(files) : i # j => files[i].fileName # files[j].fileName

-----------------------------------------------------------------------------
(* formatCode on its own *)

Str_css == <<".", "c", "s", "s">>

SampleFileNames ==
  { <<"a">> \o Str_css,
    <<"a", ".", "h", "t", "m", "l">>,
    <<"a", ".", "j", "s">>,
    <<"a", ".", "j", "s", "x">>,
    <<"a", ".", "t", "s">>,
    <<"a", ".", "t", "s", "x">>,
    <<"a", ".", "t", "x", "t">>,
    <<"c", "s", "s">>,
    <<"a">> \o Str_css \o <<".", "b">>,
    <<"a">> }

SampleContents ==
  { <<>>,
    <<SP, NL, SP>>,
    <<"a", "{", "}">>,
    <<"a", "{">>,
    <<SP, SP, "a", "{", "b", ":", "c", "}", SP, SP, NL>>,
    <<"a", "{", "b", ":", "c", ";", "d", "}", SP>>,
    <<"a", "{", "b", ":", "c", ";", "d", ":", "e", "}">>,
    <<"a", "{", "b", ":", "c", ";", "d", ":", "e", "{", SP>>,
    <<"}", "a", "{", "b", ":", "c", ";", "d", ":", "e", "}", "}">> }

\* what prettier.format does with a content: throw, or resolve to a text
PrettierOutcomes(content) ==
  { [throws |-> TRUE, out |-> Empty],
    [throws |-> FALSE, out |-> PrettierOutput(content)],
    [throws |-> FALSE, out |-> <<"o", "k">>] }

FormatInit ==
  /\ pc = "fmt"
  /\ \E n \in SampleFileNames : \E c \in SampleContents :
       \E pp \in PrettierOutcomes(c) :
         fmtIn = [fileName |-> n, content |-> c, throws |-> pp.throws, out |-> pp.out]
  /\ fmtOut = NoOutcome
  /\ files = <<>> /\ activeFileName = Empty /\ queue = <<>> /\ rendering = FALSE
  /\ storage = Absent /\ otherKeys = {} /\ error = Empty /\ isLoading = FALSE
  /\ gen = "idle" /\ received = <<>> /\ buffer = <<>> /\ currentFileName = Empty
  /\ atSubmit = [files |-> <<>>, active |-> Empty, confirmed |-> FALSE] /\ chunks = 0
  /\ streamed = <<>> /\ formats = <<>> /\ gens = 0 /\ ops = 0
  /\ savedAtBoot = Absent
  /\ UiInit

\* await formatCode(fileName, content)
CallFormatCode ==
  /\ pc = "fmt"
  /\ fmtOut' = formatCode(fmtIn.fileName, fmtIn.content,
                          [throws |-> fmtIn.throws, out |-> fmtIn.out])
  /\ pc' = "fmtDone"
  /\ UNCHANGED <<files, activeFileName, queue, rendering, storage, otherKeys,
                 error, isLoading, gen, received, buffer, currentFileName,
                 atSubmit, chunks, streamed, formats, gens, ops, savedAtBoot,
                 fmtIn>>
  /\ UNCHANGED uiVars

FormatNext == CallFormatCode

SpecFormat == FormatInit /\ [][FormatNext]_vars

\* the extension of a file name, from its last dot (empty without a dot)
Extension(fileName) ==
  IF LastIndexOf(fileName, ".") = 0 THEN Empty
  ELSE SubSeq(fileName, LastIndexOf(fileName, "."), Len(fileName))

Recognized(fileName) ==
  Extension(fileName) \in
    { Str_css, <<".", "h", "t", "m", "l">>, <<".", "j", "s">>,
      <<".", "j", "s", "x">>, <<".", "t", "s">>, <<".", "t", "s", "x">> }

\* the cases in which the pretty-printer is not run to success
NotPrettyPrinted(call) ==
  \/ ~Recognized(call.fileName)
  \/ /\ Extension(call.fileName) = Str_css
     /\ CountOf(call.content, "{") # CountOf(call.content, "}")
  \/ Len(Trim(call.content)) < MinFormatLength
  \/ call.throws

\* C7: formatCode never raises, and it resolves to the content it was given
\* whenever the extension is unrecognized, a stylesheet's braces do not
\* balance, the trimmed content is shorter than 10 characters, or the
\* pretty-printer throws
C7_FormatNeverDestructive ==
  pc = "fmtDone" =>
    /\ ~fmtOut.raised
    /\ NotPrettyPrinted(fmtIn) => fmtOut.value = fmtIn.content

\* C7 witness: a long stylesheet with unbalanced braces, which the
\* pretty-printer would have rewritten, came back as it was
C7_Witness ==
  /\ pc = "fmtDone"
  /\ Extension(fmtIn.fileName) = Str_css
  /\ CountOf(fmtIn.content, "{") # CountOf(fmtIn.content, "}")
  /\ Len(Trim(fmtIn.content)) >= MinFormatLength
  /\ ~fmtIn.throws /\ fmtIn.out # fmtIn.content
  /\ fmtOut.value = fmtIn.content

-----------------------------------------------------------------------------
(* The loader on its own *)

StoredObjects ==
  { JsonObject([fileName |-> n, content |-> c, type |-> "file", path |-> Empty]) :
      n \in {<<"a">>, <<"b">>, Undefined, NotAString},
      c \in {<<"x">>, Undefined, NotAString} }

StoredElements ==
  StoredObjects \cup
  { [json |-> j, obj |-> [fileName |-> Undefined, content |-> Undefined,
                          type |-> "undefined", path |-> Undefined]] :
      j \in {"null", "number"} }

RECURSIVE SeqsUpTo(_, _)
SeqsUpTo(S, n) ==
  IF n = 0 THEN {<<>>}
  ELSE SeqsUpTo(S, n - 1) \cup
       {Append(q, e) : q \in {r \in SeqsUpTo(S, n - 1) : Len(r) = n - 1}, e \in S}

StoredValues ==
  { Absent,
    [kind |-> "empty", t |-> "none", elems |-> <<>>],
    [kind |-> "garbage", t |-> "none", elems |-> <<>>],
    [kind |-> "json", t |-> "object", elems |-> <<>>],
    [kind |-> "json", t |-> "number", elems |-> <<>>] }
  \cup { [kind |-> "json", t |-> "array", elems |-> q] :
           q \in SeqsUpTo(StoredElements, MaxStored) }

BootInit ==
  /\ pc = "boot"
  /\ storage \in StoredValues
  /\ otherKeys \in {{}, {"ai-theme"}}
  /\ savedAtBoot = storage
  /\ fmtIn = NoCall /\ fmtOut = NoOutcome
  /\ files = <<>> /\ activeFileName = Empty /\ queue = <<>> /\ rendering = FALSE
  /\ error = Empty /\ isLoading = FALSE
  /\ gen = "idle" /\ received = <<>> /\ buffer = <<>> /\ currentFileName = Empty
  /\ atSubmit = [files |-> <<>>, active |-> Empty, confirmed |-> FALSE] /\ chunks = 0
  /\ streamed = <<>> /\ formats = <<>> /\ gens = 0 /\ ops = 0
  /\ UiInit

\* the first render of App: the initial states of files and activeFileName
LoadFiles ==
  /\ pc = "boot"
  /\ LET r == LoadProject(storage, otherKeys)
     IN /\ pc' = IF r.threw THEN "crashed" ELSE "loaded"
        /\ files' = r.files
        /\ storage' = r.storage
        /\ otherKeys' = r.otherKeys
        /\ activeFileName' = FirstFileName(r.files)
  /\ UNCHANGED <<queue, rendering, error, isLoading, gen, received, buffer,
                 currentFileName, atSubmit, chunks, streamed, formats, gens,
                 ops, savedAtBoot, fmtIn, fmtOut>>
  /\ UNCHANGED uiVars

\* the effect on [files, activeFileName] after the first render
MountEffect ==
  /\ pc = "loaded"
  /\ storage' = Stringify(files)
  /\ pc' = "app"
  /\ UNCHANGED <<files, activeFileName, queue, rendering, otherKeys, error,
                 isLoading, gen, received, buffer, currentFileName, atSubmit,
                 chunks, streamed, formats, gens, ops, savedAtBoot, fmtIn,
                 fmtOut>>
  /\ UNCHANGED uiVars

LoadNext == LoadFiles \/ MountEffect

SpecLoad == BootInit /\ [][LoadNext]_vars

\* a stored element that is an object with a string fileName and content
IsFileObject(e) ==
  /\ e.json = "object"
  /\ e.obj.fileName \notin {Undefined, NotAString}
  /\ e.obj.content \notin {Undefined, NotAString}

\* a stored value that is an array of such objects
IsStoredProject(saved) ==
  /\ saved.kind = "json" /\ saved.t = "array"
  /\ \A i \in 1..Len(saved.elems) : IsFileObject(saved.elems[i])

\* C8: (as claimed) every stored value that is present and is not an array
\* of file objects gives the empty project and has its key removed
C8_AsClaimed ==
  (pc = "loaded" /\ savedAtBoot.kind # "absent" /\ ~IsStoredProject(savedAtBoot))
    => files = <<>> /\ storage = Absent

\* C8: loading never throws; a stored array of objects with a string
\* fileName and a string content is returned as the File Set; any other
\* stored value gives the empty project, and its key is removed unless the
\* stored value is the empty string, which is left as it is
C8_LoadNeverThrows ==
  /\ pc # "crashed"
  /\ pc = "loaded" =>
       IF IsStoredProject(savedAtBoot)
       THEN files = ParsedFiles(savedAtBoot.elems) /\ storage = savedAtBoot
       ELSE /\ files = <<>>
            /\ savedAtBoot.kind \notin {"absent", "empty"} => storage = Absent
            /\ savedAtBoot.kind \in {"absent", "empty"} => storage = savedAtBoot

\* C8 witness: an array that holds a null after a valid file has been loaded
C8_Witness ==
  /\ pc = "loaded"
  /\ savedAtBoot.kind = "json" /\ savedAtBoot.t = "array"
  /\ Len(savedAtBoot.elems) = 2
  /\ IsFileObject(savedAtBoot.elems[1])
  /\ savedAtBoot.elems[2].json = "null"
  /\ files = <<>> /\ storage = Absent

-----------------------------------------------------------------------------
(* The confirmation gate *)

\* the records of fs and gs have the same names and contents, in order
SameNamesAndContents(fs, gs) ==
  /\ Len(fs) = Len(gs)
  /\ \A i \in 1..Len(fs) :
       /\ fs[i].fileName = gs[i].fileName
       /\ fs[i].content = gs[i].content

\* C11: (as claimed) when a generation the user confirmed in the dialog has
\* completed, and no user operation has touched the File Set, the File Set
\* the post-stream pass finds holds the files of the new generation only,
\* each with the content the new stream gave it
C11_ConfirmedGenerationReplaces ==
  (atSubmit.confirmed /\ gens > 0 /\ Len(streamed) = gens /\ error = Empty
     /\ ops = 0)
    => SameNamesAndContents(streamed[gens],
                            Described(CompleteLines(received), <<>>, Empty))

\* C12: (as claimed) a step that opens a stream while the rendered File Set
\* holds a file with non-blank content is the confirmation of the dialog,
\* and a step that closes the dialog without confirming opens no stream and
\* changes neither the File Set nor its pending updates
C12_ConfirmationGate ==
  [][ /\ (gen = "idle" /\ gen' = "streaming" /\ hasExistingCode(files))
          => atSubmit'.confirmed
      /\ (showConfirmation /\ ~showConfirmation' /\ ~isConfirming')
          => (gen' = gen /\ files' = files /\ queue' = queue) ]_vars

-----------------------------------------------------------------------------
(* Export *)

\* the part of a file name after its last "/"
BaseName(fileName) ==
  SubSeq(fileName, LastIndexOf(fileName, "/") + 1, Len(fileName))

\* C13: (as claimed) an archive built from the File Set has one entry per
\* record, and a record that carries a parent path is an entry inside the
\* directory of that path, under its own base name and with its content
C13_ExportPreservesNesting ==
  [][ (archive' # archive)
        => /\ Len(archive') = Len(files)
           /\ \A i \in 1..Len(files) :
                (files[i].path \notin {Empty, Undefined})
                  => \E k \in 1..Len(archive') :
                       /\ archive'[k].name =
                            files[i].path \o <<"/">> \o BaseName(files[i].fileName)
                       /\ archive'[k].content = files[i].content ]_vars

-----------------------------------------------------------------------------
(* The Preview Synthesizer in the application *)

\* projects to preview: a component project whose main component is found
\* by name, one whose main component is the first component file, a plain
\* document with a stylesheet and a script, a stylesheet alone, nothing
PreviewFileSets ==
  { << File(<<"b", ".", "j", "s", "x">>, <<"i", "m", "p", "o", "r", "t", " ", "a", " ", "f", "r", "o", "m", " ", "'", "b", "'", ";", " ", "<", "b", ">", "x">>, Empty),
       File(<<"A", "p", "p", ".", "j", "s", "x">>, <<"e", "x", "p", "o", "r", "t", " ", "d", "e", "f", "a", "u", "l", "t", NL, "y">>, Empty),
       File(<<"s", ".", "c", "s", "s">>, <<"c">>, Empty) >>,
    << File(<<"m", ".", "j", "s">>, <<"R", "e", "a", "c", "t", " ", "e", "x", "p", "o", "r", "t", " ", "{", "m", "}", ";", "m">>, Empty),
       File(<<"t", ".", "t", "s", "x">>, <<"t">>, Empty) >>,
    << File(<<"i", ".", "h", "t", "m", "l">>, <<"<", "l", "i", "n", "k", " ", "h", "r", "e", "f", "=", "\"", "s", "\"", ">", "<", "/", "h", "e", "a", "d", ">", "<", "s", "c", "r", "i", "p", "t", " ", "s", "r", "c", "=", "'", "m", "'", ">", "<", "/", "s", "c", "r", "i", "p", "t", ">", "<", "/", "b", "o", "d", "y", ">">>, Empty),
       File(<<"s", ".", "c", "s", "s">>, <<"c">>, Empty),
       File(<<"m", ".", "j", "s">>, <<"j">>, Empty) >>,
    << File(<<"s", ".", "c", "s", "s">>, <<"c">>, Empty) >>,
    <<>> }

\* App mounted on one of these projects
PreviewInit ==
  /\ pc = "app"
  /\ files \in PreviewFileSets
  /\ activeFileName = FirstFileName(files)
  /\ queue = <<>>
  /\ rendering = FALSE
  /\ storage = Stringify(files)
  /\ otherKeys = {}
  /\ error = Empty
  /\ isLoading = FALSE
  /\ gen = "idle"
  /\ received = <<>>
  /\ buffer = <<>>
  /\ currentFileName = Empty
  /\ atSubmit = [files |-> <<>>, active |-> Empty, confirmed |-> FALSE]
  /\ chunks = 0
  /\ streamed = <<>>
  /\ formats = <<>>
  /\ gens = 0
  /\ ops = 0
  /\ savedAtBoot = storage
  /\ fmtIn = NoCall
  /\ fmtOut = NoOutcome
  /\ UiInit

\* the state of App a render has at hand
AppState ==
  [files |-> files, activeFileName |-> activeFileName, isLoading |-> isLoading,
   error |-> error, showConfirmation |-> showConfirmation]

\* a render of App evaluates the function of the useMemo
ComputePreview ==
  /\ pc = "app"
  /\ preview' = [doc |-> htmlContent(AppState), of |-> files,
                 computed |-> IF preview.computed = 0 THEN 1 ELSE 2]
  /\ UNCHANGED <<files, activeFileName, queue, rendering, storage, otherKeys,
                 error, isLoading, gen, received, buffer, currentFileName,
                 atSubmit, chunks, streamed, formats, gens, ops, savedAtBoot,
                 fmtIn, fmtOut, pc, showConfirmation, pendingPrompt,
                 isConfirming, timer, archive, voiceVars, erased, snippetVars>>

PreviewNext ==
  \/ ComputePreview
  \/ \E n \in FileNames(files) : SelectFile(n)
  \/ \E c \in EditorContents : ContentChange(c)
  \/ gens = 0 /\ HandleSubmit
  \/ RenderStep
  \/ Commit

SpecPreview == PreviewInit /\ [][PreviewNext]_vars

\* C14: the document computed on a File Set is the document the function
\* gives on that File Set in every later state of the application, whatever
\* the Active File Pointer, the loading flag and the rest of the state have
\* become; and computing it again on an unchanged File Set gives the same
\* document
C14_PreviewDependsOnFileSetOnly ==
  /\ []((preview.computed > 0 /\ preview.of = files)
          => preview.doc = htmlContent(AppState))
  /\ [][ (preview' # preview /\ preview.computed > 0 /\ preview.of = files
           /\ files' = files)
          => preview'.doc = preview.doc ]_vars

\* C14 witness: a component project has been previewed twice, and since it
\* was mounted another file has become active and a generation is loading
C14_Witness ==
  /\ preview.computed = 2 /\ preview.of = files
  /\ Len(files) > 1 /\ EndsWith(files[1].fileName, Str_jsx)
  /\ activeFileName # files[1].fileName
  /\ isLoading
  /\ Includes(preview.doc, <<"y">>)

-----------------------------------------------------------------------------
(* Lines and their target files *)

\* C15: (as claimed) when the stream has completed, every content line is
\* in the file that was the current target when the line was taken from the
\* buffer: the File Set is the one the lines describe when each is applied
\* as it is read, from the File Set the request started with, followed by
\* the leftover buffer
C15_LinesReachTheirTarget ==
  StreamCompleted
    => SameNamesAndContents(
         streamed[1],
         AppendContent(Described(CompleteLines(received), atSubmit.files, Empty),
                       LastMarkerName(received), LastPartial(received)))

\* the content lines among ls that have a target: those that follow a
\* marker line with a name (seen: such a marker came before ls)
RECURSIVE TargetedLines(_, _)
TargetedLines(ls, seen) ==
  IF ls = <<>> THEN <<>>
  ELSE IF IsMarkerLine(Head(ls)) THEN TargetedLines(Tail(ls), TRUE)
  ELSE IF StartsWith(Head(ls), MARKER) \/ ~seen THEN TargetedLines(Tail(ls), seen)
  ELSE <<Head(ls)>> \o TargetedLines(Tail(ls), seen)

\* the complete lines this step has added to the received text
NewLines ==
  SubSeq(CompleteLines(received'), Len(CompleteLines(received)) + 1,
         Len(CompleteLines(received')))

\* the updates of the given kinds this step has dispatched
Dispatched(kinds) ==
  LET OfKind(u) == u.kind \in kinds
  IN SelectSeq(SubSeq(queue', Len(queue) + 1, Len(queue')), OfKind)

\* C16: a chunk dispatches line updates for exactly the content lines that
\* follow a marker with a name, and while no such marker has been read a
\* chunk dispatches nothing and changes neither the File Set nor the Active
\* File Pointer; a stream that ends without such a marker leaves the File
\* Set as the request found it
C16_PreambleDiscarded ==
  /\ [][ (received' # received)
          => /\ LET all == TargetedLines(CompleteLines(received'), FALSE)
                    old == TargetedLines(CompleteLines(received), FALSE)
                    new == Dispatched({"line"})
                IN /\ Len(new) = Len(all) - Len(old)
                   /\ \A i \in 1..Len(new) : new[i].line = all[Len(old) + i]
             /\ (LastMarkerName(received') = Empty)
                  => (queue' = queue /\ files' = files
                      /\ activeFileName' = activeFileName) ]_vars
  /\ []((Len(streamed) = 1 /\ LastMarkerName(received) = Empty)
          => (streamed[1] = atSubmit.files /\ activeFileName = atSubmit.active))

\* C16 witness: a line arrived before the first marker of a stream into a
\* project with a file, the same line arrived after the marker, and the
\* stream has completed with the new file holding the line once
C16_Witness ==
  /\ StreamCompleted
  /\ CompleteLines(received) = <<<<"x">>, MarkerA, <<"x">>>>
  /\ atSubmit.files = <<OldFile>>
  /\ SameNamesAndContents(streamed[1],
                          <<OldFile, File(<<"a">>, <<"x", NL>>, Empty)>>)

\* C17: a chunk whose complete lines are all markers without a name
\* dispatches nothing and leaves the current target, the File Set and the
\* Active File Pointer as they are; no chunk dispatches such a line as
\* content, and every record or pointer update it dispatches carries the
\* name of a marker it has read
C17_NamelessMarkerIgnored ==
  [][ (received' # received)
        => /\ (\A i \in 1..Len(NewLines) :
                  StartsWith(NewLines[i], MARKER) /\ MarkerName(NewLines[i]) = Empty)
               => (currentFileName' = currentFileName /\ queue' = queue
                   /\ files' = files /\ activeFileName' = activeFileName)
           /\ \A i \in 1..Len(Dispatched({"line"})) :
                ~StartsWith(Dispatched({"line"})[i].line, MARKER)
           /\ \A i \in 1..Len(Dispatched({"marker", "active"})) :
                /\ Dispatched({"marker", "active"})[i].name # Empty
                /\ \E k \in 1..Len(NewLines) :
                     /\ IsMarkerLine(NewLines[k])
                     /\ MarkerName(NewLines[k]) = Dispatched({"marker", "active"})[i].name
     ]_vars

\* C17 witness: a marker without a name came between the marker of file a
\* and a content line, and the completed stream has put the line into a
C17_Witness ==
  /\ StreamCompleted
  /\ CompleteLines(received) = <<MarkerA, MarkerNoName, <<"x">>>>
  /\ atSubmit.files = <<>>
  /\ SameNamesAndContents(streamed[1], <<File(<<"a">>, <<"x", NL>>, Empty)>>)
  /\ activeFileName = <<"a">>

-----------------------------------------------------------------------------
(* The formatting pass *)

\* C18: (as claimed) a formatting pass is started once for each generation,
\* and neither the start of a pass (formatCode is called on every file of
\* its snapshot) nor its end (the formatted File Set is written back) is a
\* step taken while the stream of a generation is in flight
C18_FormattingPassTiming ==
  [][ (formats' # formats)
        => /\ gen = "idle" /\ gen' = "idle"
           /\ Len(formats') > Len(formats) => Len(streamed') = gens ]_vars

\* C19: (as claimed) when the formatted File Set of a pass is written back,
\* every file the File Set holds at that moment is still in it afterwards
\* and no file comes back that is no longer in it: what was created,
\* appended or deleted since the pass took its snapshot is kept
C19_WriteBackKeepsLaterMutations ==
  [][ (Applies("value") /\ Head(queue).value # <<>>)
        => /\ Len(files') = Len(files)
           /\ \A i \in 1..Len(files) : files'[i].fileName = files[i].fileName
     ]_vars

-----------------------------------------------------------------------------
(* Parent paths *)

\* the part of a file name before its last "/", empty when it has none
ParentPath(fileName) ==
  IF LastIndexOf(fileName, "/") = 0 THEN Empty
  ELSE SubSeq(fileName, 1, LastIndexOf(fileName, "/") - 1)

\* C20: (as claimed) the parent path of every record of the File Set is the
\* part of its file name before the last "/"
C20_ParentPathInvariant ==
  \A i \in 1..Len(files) : files[i].path = ParentPath(files[i].fileName)

-----------------------------------------------------------------------------
\* C21: every stored project that is present and structurally invalid (text
\* that does not parse, or JSON that is not an array of objects with a string
\* fileName and a string content) has all related storage keys removed on
\* load, not only the project key
C21_InvalidClearsRelatedKeys ==
  (pc = "loaded" /\ savedAtBoot.kind \notin {"absent", "empty"}
     /\ ~IsStoredProject(savedAtBoot))
    => storage = Absent /\ otherKeys = {}

-----------------------------------------------------------------------------
\* C22: persistence round trip: once the pending updates and the persistence
\* effect have run, loading the project from storage does not throw and
\* gives a File Set with the file names, the contents and the order of the
\* current File Set (the empty File Set when the key is absent)
C22_PersistenceRoundTrip ==
  Settled =>
    LET r == LoadProject(storage, otherKeys)
    IN /\ ~r.threw
       /\ SameNamesAndContents(r.files, files)
       /\ storage = Absent => files = <<>>

\* C22 witness: a File Set of two records, changed by a generation and by a
\* user operation, has been persisted and loads back as it is
C22_Witness ==
  /\ Settled
  /\ gens > 0 /\ ops > 0 /\ gen = "idle" /\ formats = <<>>
  /\ Len(files) = 2
  /\ \E i \in 1..2 : files[i].content # Empty
  /\ LoadProject(storage, otherKeys).files # <<>>
  /\ SameNamesAndContents(LoadProject(storage, otherKeys).files, files)

-----------------------------------------------------------------------------
\* C23: at most one generation stream is in flight at any time: the loading
\* flag is set while a stream is in flight, and a submit from the footer, a
\* dialog confirmation or a debounce expiry opens a stream only when no
\* stream is in flight
C23_OneStreamInFlight ==
  /\ [](gen = "streaming" => isLoading)
  /\ [][gens' # gens => (gen = "idle" /\ gen' = "streaming")]_vars

\* C23 witness: while a stream opened by voice is in flight the footer has
\* submitted (the source is manual again), the dialog is open, and the
\* stream is still the first one
C23_Witness ==
  /\ gen = "streaming" /\ isLoading
  /\ origin = "voice" /\ submissionSourceRef = "manual"
  /\ gens = 1

-----------------------------------------------------------------------------
\* C24: voice debounce: at most one timeout is pending; none is pending
\* while capture is not active; a pending timeout is the one of the
\* transcript as it is now, and its delay has passed only when a full
\* debounce window has passed since the transcript last changed, so only
\* then does it submit; and every transcript the hook delivers while capture
\* is active leaves exactly one timeout pending, a new one for it
C24_VoiceDebounce ==
  /\ [](/\ Cardinality(Pending) <= 1
        /\ ~isListening => Pending = {}
        /\ \A t \in Pending : /\ t.transcript = transcript
                              /\ t.elapsed => quiet)
  /\ [][(isListening /\ isListening' /\ transcript' # transcript
           /\ transcript' # Empty)
          => (/\ Pending' = {timer'}
              /\ timer'.transcript = transcript'
              /\ ~timer'.elapsed)]_vars

\* C24 witness: after a stream that a timeout opened has ended, the hook has
\* delivered another transcript, and the timeout set for it is pending
C24_Witness ==
  /\ origin = "voice" /\ gen = "idle" /\ gens = 1
  /\ isListening /\ ~submitted /\ ~quiet
  /\ timer.armed /\ ~timer.elapsed /\ timer.transcript = transcript

-----------------------------------------------------------------------------
\* C25: capture resume: when a stream that a debounce timeout opened ends,
\* by completion or by error, capture is active afterwards; when a stream
\* that a submit from the footer opened ends, the speech hook is left as it
\* is
C25_CaptureResume ==
  [][(gen = "streaming" /\ gen' = "idle")
       => /\ origin = "voice" => isListening'
          /\ origin = "manual" => (/\ isListening' = isListening
                                   /\ transcript' = transcript)]_vars

-----------------------------------------------------------------------------
\* C26: no automatic resubmission: a debounce timeout opens a stream only
\* for a transcript that has changed since a timeout last submitted it
C26_NoAutomaticResubmission ==
  [][(gens' # gens /\ origin' = "voice") => ~submitted]_vars

-----------------------------------------------------------------------------
\* C27: a full project reset destroys every record: the render that follows
\* resetProject is committed with an empty File Set and an empty Active File
\* Pointer, and once the pending updates have run no record the reset
\* destroyed is in the File Set, unless a later file creation or a marker of
\* a stream has created it again
C27_ResetDestroysRecords ==
  /\ [](Settled => \A n \in erased : ~HasFile(files, n))
  /\ [][(storage = Absent /\ storage' # Absent)
          => (files' = <<>> /\ activeFileName' = Empty)]_vars

-----------------------------------------------------------------------------
(* The suggestion request *)

\* the items a snippets array may hold: strings, and a value that is none
SnippetItems == {<<"s">>, <<"t">>, NotAString}

\* what ai.models.generateContent may settle with: a rejection, text that is
\* no JSON, JSON that is no object (null, a number, a string, an array), and
\* an object whose snippets property is absent, null, 0, a number, '', a
\* string, or an array
Responses ==
  { [kind |-> "rejected", t |-> "none", field |-> "none", items |-> <<>>],
    [kind |-> "garbage", t |-> "none", field |-> "none", items |-> <<>>] }
  \cup { [kind |-> "json", t |-> t, field |-> "none", items |-> <<>>] :
           t \in {"null", "number", "string", "array"} }
  \cup { [kind |-> "json", t |-> "object", field |-> f, items |-> <<>>] :
           f \in {"absent", "null", "zero", "number", "empty", "string"} }
  \cup { [kind |-> "json", t |-> "object", field |-> "array", items |-> q] :
           q \in SeqsUpTo(SnippetItems, MaxStored) }

\* parsed.snippets is truthy
Truthy(r) == r.field \in {"number", "string", "array"}

\* JSON.parse(response.text.trim()), then the test
\* parsed.snippets && Array.isArray(parsed.snippets): "ok", or "throws" when
\* the request was rejected, the text does not parse, a property of null is
\* read, or the test fails
ParseSnippets(r) ==
  IF r.kind # "json" THEN "throws"
  ELSE IF r.t = "null" THEN "throws"
  ELSE IF r.t # "object" THEN "throws"
  ELSE IF Truthy(r) /\ r.field = "array" THEN "ok"
  ELSE "throws"

\* handleFetchSnippets up to the request; the Get Suggestions button is
\* disabled while a request is loading and while there is no active file
FetchSnippets ==
  /\ pc = "app" /\ ~rendering /\ queue = <<>>
  /\ ~isSnippetsLoading
  /\ HasFile(files, activeFileName)
  /\ isSnippetsLoading' = TRUE
  /\ snippetsError' = Empty
  /\ snippets' = <<>>
  /\ response' = NoResponse
  /\ UNCHANGED <<files, activeFileName, queue, rendering, storage, otherKeys,
                 error, isLoading, gen, received, buffer, currentFileName,
                 atSubmit, chunks, streamed, formats, gens, ops, savedAtBoot,
                 fmtIn, fmtOut, pc, showConfirmation, pendingPrompt,
                 isConfirming, timer, archive, preview, voiceVars, erased>>

\* the request settles with r: the rest of the try block, catch, finally
SnippetsSettle(r) ==
  /\ pc = "app" /\ isSnippetsLoading
  /\ IF ParseSnippets(r) = "ok"
     THEN /\ snippets' = r.items
          /\ UNCHANGED snippetsError
     ELSE /\ snippetsError' = <<"F", "a", "i", "l", "e", "d">>
          /\ UNCHANGED snippets
  /\ isSnippetsLoading' = FALSE
  /\ response' = r
  /\ UNCHANGED <<files, activeFileName, queue, rendering, storage, otherKeys,
                 error, isLoading, gen, received, buffer, currentFileName,
                 atSubmit, chunks, streamed, formats, gens, ops, savedAtBoot,
                 fmtIn, fmtOut, pc, showConfirmation, pendingPrompt,
                 isConfirming, timer, archive, preview, voiceVars, erased>>

\* the application with suggestion requests
SnippetNext ==
  \/ FetchSnippets
  \/ \E r \in Responses : SnippetsSettle(r)
  \/ RenderStep
  \/ Commit
  \/ \E n \in FileNameInputs : NewFileSubmit(n, <<>>)
  \/ \E c \in EditorContents : ContentChange(c)
  \/ ResetProject

SpecSnippets == Init /\ [][SnippetNext]_vars

\* a result that parses to an object with a snippets field that is a list of
\* strings
IsSnippetList(r) ==
  /\ r.kind = "json" /\ r.t = "object" /\ r.field = "array"
  /\ \A i \in 1..Len(r.items) : r.items[i] # NotAString

\* C28: suggestion request outcome: a request that has settled with a result
\* that is no object with a list of strings as snippets has left the snippet
\* list empty and the error set; one that has settled with such a result has
\* left the error empty; the loading flag is false once the request has
\* settled; and the steps of the request leave the File Set as it is
C28_SuggestionOutcome ==
  /\ [](response # NoResponse =>
          /\ ~isSnippetsLoading
          /\ IF IsSnippetList(response)
             THEN snippetsError = Empty /\ snippets = response.items
             ELSE snippets = <<>> /\ snippetsError # Empty)
  /\ [][(isSnippetsLoading' # isSnippetsLoading)
          => UNCHANGED <<files, activeFileName, queue, storage>>]_vars

-----------------------------------------------------------------------------
(* Termination of a generation *)

\* the stream of the request in flight terminates: it completes or raises
StreamEnds ==
  \/ \E eager \in EagerChoices : received = AppText /\ EndStream(eager)
  \/ StreamError

\* the gate, the voice bridge and the stream, without the editor
LiveNext ==
  \/ gens < MaxGens /\ \E p \in Prompts : onSubmit(p)
  \/ gens < MaxGens /\ handleConfirmSubmit
  \/ handleCancelSubmit
  \/ \E t \in Prompts : TranscriptUpdate(t)
  \/ StartListening
  \/ StopListening
  \/ Elapse
  \/ gens < MaxGens /\ TimerFire
  \/ \E eager \in EagerChoices : received = <<>> /\ Chunk(AppText, eager)
  \/ StreamEnds
  \/ RenderStep
  \/ Commit
  \/ \E throws \in ThrowChoices : FormatResolve(throws)

\* the stream terminates, and React completes the renders it has scheduled
SpecLive ==
  /\ Init /\ [][LiveNext]_vars
  /\ WF_vars(StreamEnds) /\ WF_vars(RenderStep) /\ WF_vars(Commit)

\* C29: every generation that starts leaves the in-flight state: the loading
\* flag becomes false again, and after a generation started from the dialog
\* the confirming flag is false and the pending prompt is cleared
C29_GenerationTerminates ==
  /\ isLoading ~> ~isLoading
  /\ isConfirming ~> (~isConfirming /\ pendingPrompt = Empty)

\* C29 witness: a generation that was confirmed in the dialog has ended by an
\* error; nothing is loading, nothing is being confirmed
C29_Witness ==
  /\ gens > 0 /\ gen = "idle" /\ origin = "dialog" /\ atSubmit.confirmed
  /\ error # Empty
  /\ ~isLoading /\ ~isConfirming /\ pendingPrompt = Empty

-----------------------------------------------------------------------------
\* C30: frame of a user edit: the update an editor content change has queued
\* replaces the content of one record, which has the name the Active File
\* Pointer had, and leaves the number of records, their order, their names
\* and the content of every other record as they are, so that nothing
\* changes when no record has that name; a content change with undefined
\* queues nothing and leaves the File Set as it is
C30_EditFrame ==
  /\ [][(queue # <<>> /\ Head(queue).kind = "edit" /\ queue' = Tail(queue))
          => /\ Len(files') = Len(files)
             /\ \A i \in 1..Len(files) :
                  /\ files'[i].fileName = files[i].fileName
                  /\ files[i].fileName # Head(queue).name
                       => files'[i].content = files[i].content
             /\ HasFile(files, Head(queue).name)
                  => \E i \in 1..Len(files) :
                       /\ files[i].fileName = Head(queue).name
                       /\ files'[i].content = Head(queue).line
             /\ \A i, j \in 1..Len(files) :
                  (files'[i] # files[i] /\ files'[j] # files[j]) => i = j
             /\ ~HasFile(files, Head(queue).name) => files' = files]_vars
  /\ [][(ops' # ops /\ queue' # queue /\ Len(queue') > 0
           /\ queue'[Len(queue')].kind = "edit")
          => /\ queue'[Len(queue')].name = activeFileName
             /\ queue'[Len(queue')].line # Undefined
             /\ files' = files]_vars
  /\ [][(ops' # ops /\ queue' = queue) => (files' = files /\ ~rendering')]_vars

====
